---- MODULE Spec2Model ----
(***************************************************************************)
(* Skyscope-Hackintosh: the configuration synthesis engine                 *)
(* (skyscope_config_parts.py, skyscope_hwprobe.py) and the kext            *)
(* acquisition / staging pipeline (skyscope_kext_manager.py).              *)
(*                                                                         *)
(* Python strings are TLA+ strings; TLC evaluates Len, SubSeq and \o on    *)
(* them, so str.split, str.lower, "in", startswith, sorted and join are    *)
(* computed character by character.  A Python value is a tagged record:    *)
(* a dict [t |-> "dict", m |-> key -> value], a list                       *)
(* [t |-> "list", s |-> sequence], or a scalar leaf.                       *)
(***************************************************************************)
EXTENDS Integers, Sequences, FiniteSets, TLC

VARIABLES
    final_opencore_config,  \* the accumulator every merge writes into (a dict's key -> value map)
    merged,                 \* SpecMerge: the partial trees merged so far, in merge order
    heap,                   \* SpecMerge: the dicts in memory, address -> key -> value map
    cpu_details_result,     \* what get_cpu_details() returned (a key -> value map)
    gpu_details_list,       \* what get_gpu_details() returned
    audio_details_list,     \* what get_audio_details() returned
    ethernet_details_list,  \* what get_ethernet_details() returned
    pc,                     \* position of the running script
    assets,                 \* release_data["assets"] of the repository's latest release
    asset_pattern,          \* download_kext_zip: the primary pattern
    fallback_asset_pattern, \* download_kext_zip: the fallback pattern, or None
    normcase_folds,         \* os.path.normcase folds case (Windows) or not (POSIX)
    download_dir,           \* the download directory: None when absent, else file name -> bytes held
    calls,                  \* the calls of download_kext_zip made so far, one record each
    search_dir,             \* find_kext_in_dir: the tree below the search root (a set of entries)
    kext_name_pattern,      \* find_kext_in_dir: the name or prefix looked for
    is_plugin_search,       \* find_kext_in_dir: exact-name mode
    pending,                \* find_kext_in_dir: the entries rglob has still to yield
    min_depth,              \* find_kext_in_dir: depth of the best match so far
    found_path,             \* find_kext_in_dir: the best match so far, or None
    kext_info,              \* stage_kext: the kext's name, generic_kext_name and plugins
    tmpdir,                 \* stage_kext: the tree the archive extracts to (a set of entries)
    kexts_staging,          \* base_staging_dir/OC/Kexts: bundle name -> what the directory holds
    staging_before,         \* kexts_staging as it was when stage_kext was called
    staged_kext_paths,      \* stage_kext: the list it returns, as built so far
    stage_log,              \* stage_kext: what happened to each item handled so far
    stagers,                \* SpecStagePair: the calls of stage_kext under way at once, one record each
    gen_call,               \* the last generator call made on its own: its input and outcome
    registry                \* the module-level tables KEXT_INFO_DB and COMMON_KEXT_PROPERTIES in memory

probe_vars == <<cpu_details_result, gpu_details_list, audio_details_list, ethernet_details_list>>

download_vars == <<assets, asset_pattern, fallback_asset_pattern, normcase_folds, download_dir, calls>>

find_vars == <<search_dir, kext_name_pattern, is_plugin_search, pending, min_depth, found_path>>

stage_vars == <<kext_info, tmpdir, kexts_staging, staging_before, staged_kext_paths, stage_log, stagers>>

kext_vars == <<download_vars, find_vars, stage_vars>>

synthesis_vars == <<final_opencore_config, merged, heap, probe_vars, gen_call, registry>>

vars == <<final_opencore_config, merged, heap, probe_vars, pc, kext_vars, gen_call, registry>>

(***************************************************************************)
(* Strings                                                                 *)
(***************************************************************************)

\* The printable ASCII characters in code-point order: 32 (space) to 95, and
\* 97 to 126 (a string literal cannot hold the grave accent, 96).
AsciiLow == " !\"#$%&'()*+,-./0123456789:;<=>?@ABCDEFGHIJKLMNOPQRSTUVWXYZ[\\]^_"
AsciiHigh == "abcdefghijklmnopqrstuvwxyz{|}~"

CharAt(s, i) == SubSeq(s, i, i)

\* The code point of every character of the two tables.
CodePoint ==
    [c \in {CharAt(AsciiLow, i) : i \in 1..Len(AsciiLow)}
            \cup {CharAt(AsciiHigh, i) : i \in 1..Len(AsciiHigh)} |->
        IF \E i \in 1..Len(AsciiLow) : CharAt(AsciiLow, i) = c
        THEN 31 + (CHOOSE i \in 1..Len(AsciiLow) : CharAt(AsciiLow, i) = c)
        ELSE 96 + (CHOOSE i \in 1..Len(AsciiHigh) : CharAt(AsciiHigh, i) = c)]

\* ord(c); the control characters used as white space sort below every
\* printable character.
Ord(c) == IF c \in DOMAIN CodePoint THEN CodePoint[c] ELSE 9

\* chr(n) for the code points of the two tables
Chr(n) == IF n <= 95 THEN CharAt(AsciiLow, n - 31) ELSE CharAt(AsciiHigh, n - 96)

\* str.isspace for one character (the white space str.split() splits on).
IsSpace(c) == c \in {" ", "\t", "\n", "\r", "\f"}

LowerChar(c) == IF Ord(c) >= 65 /\ Ord(c) <= 90 THEN Chr(Ord(c) + 32) ELSE c
UpperChar(c) == IF Ord(c) >= 97 /\ Ord(c) <= 122 THEN Chr(Ord(c) - 32) ELSE c

RECURSIVE MapChars(_, _, _)
MapChars(s, i, upper) ==
    IF i > Len(s) THEN ""
    ELSE (IF upper THEN UpperChar(CharAt(s, i)) ELSE LowerChar(CharAt(s, i)))
         \o MapChars(s, i + 1, upper)

\* str.lower() and str.upper()
Lower(s) == MapChars(s, 1, FALSE)
Upper(s) == MapChars(s, 1, TRUE)

\* pat in s, s.startswith(pat), s.endswith(pat)
Contains(s, pat) ==
    \E i \in 1..(Len(s) - Len(pat) + 1) : SubSeq(s, i, i + Len(pat) - 1) = pat
StartsWith(s, pat) == Len(pat) <= Len(s) /\ SubSeq(s, 1, Len(pat)) = pat
EndsWith(s, pat) ==
    Len(pat) <= Len(s) /\ SubSeq(s, Len(s) - Len(pat) + 1, Len(s)) = pat

RECURSIVE SplitFrom(_, _, _, _)
SplitFrom(s, i, cur, out) ==
    IF i > Len(s)
    THEN IF cur = "" THEN out ELSE Append(out, cur)
    ELSE IF IsSpace(CharAt(s, i))
         THEN SplitFrom(s, i + 1, "", IF cur = "" THEN out ELSE Append(out, cur))
         ELSE SplitFrom(s, i + 1, cur \o CharAt(s, i), out)

\* s.split(): the maximal runs of non-white-space characters, in order.
Split(s) == SplitFrom(s, 1, "", <<>>)

RECURSIVE StrLessFrom(_, _, _)
StrLessFrom(a, b, i) ==
    IF i > Len(b) THEN FALSE
    ELSE IF i > Len(a) THEN TRUE
    ELSE IF Ord(CharAt(a, i)) < Ord(CharAt(b, i)) THEN TRUE
    ELSE IF Ord(CharAt(a, i)) > Ord(CharAt(b, i)) THEN FALSE
    ELSE StrLessFrom(a, b, i + 1)

\* a < b on Python strings: lexicographic by code point.
StrLess(a, b) == StrLessFrom(a, b, 1)

RECURSIVE SortedStrings(_)
\* sorted(S) for a set of strings.
SortedStrings(S) ==
    IF S = {} THEN <<>>
    ELSE LET least == CHOOSE x \in S : \A y \in S : x = y \/ StrLess(x, y)
         IN  <<least>> \o SortedStrings(S \ {least})

RECURSIVE Join(_, _)
\* sep.join(seq)
Join(sep, seq) ==
    IF Len(seq) = 0 THEN ""
    ELSE IF Len(seq) = 1 THEN seq[1]
    ELSE seq[1] \o sep \o Join(sep, Tail(seq))

Range(seq) == {seq[i] : i \in 1..Len(seq)}

(***************************************************************************)
(* Python values                                                           *)
(***************************************************************************)

Dict(m) == [t |-> "dict", m |-> m]
List(s) == [t |-> "list", s |-> s]
Str(v)  == [t |-> "str", v |-> v]
Bool(v) == [t |-> "bool", v |-> v]
Num(v)  == [t |-> "int", v |-> v]
Bytes(v) == [t |-> "bytes", v |-> v]   \* v: the bytes, as a sequence of 0..255
None    == [t |-> "none"]

EmptyMap == <<>>

IsDict(x) == x.t = "dict"
IsList(x) == x.t = "list"

\* d.get(key, default) on a dict's key -> value map
Get(m, key, default) == IF key \in DOMAIN m THEN m[key] ELSE default

\* m with m[key] = value assigned
Put(m, key, value) == [k \in DOMAIN m \cup {key} |-> IF k = key THEN value ELSE m[k]]

\* m after del m[key]
Del(m, key) == [k \in DOMAIN m \ {key} |-> m[k]]

\* the maps {k1: v1} and {k1: v1, k2: v2}
Keys1(k1, v1) == [k \in {k1} |-> v1]
Keys2(k1, v1, k2, v2) == [k \in {k1, k2} |-> IF k = k1 THEN v1 ELSE v2]

\* key in x, for a dict x
HasKey(x, key) == IsDict(x) /\ key \in DOMAIN x.m

(***************************************************************************)
(* skyscope_hwprobe.py: merge_config_dicts                                 *)
(***************************************************************************)

guid_key == "7C436110-AB2A-4BBB-A880-FE41995C9F82"

\* kext.get("BundlePath")
BundlePathOf(kext) == Get(kext.m, "BundlePath", None)

\* main_dict.get(other) is main_dict[key].  The trees the script builds hold
\* no object twice (every generator allocates its containers afresh and a
\* merge stores each incoming value in one slot), so two slots of one dict
\* hold the same object only when they are the same slot.
SameObjectInDict(main_dict, other, key) == other \in DOMAIN main_dict /\ other = key

\* A merge of boot-args that joins the tokens in the order met, main's first,
\* without sorting them: what lines 181-184 would do with a list for the set.
MergeBootArgs_Unsorted(main_value, new_value) ==
    LET main_boot_args_container == main_value.m["Add"].m[guid_key].m
        new_boot_args_container == new_value.m["Add"].m[guid_key].m
        main_tokens == Split(Get(main_boot_args_container, "boot-args", Str("")).v)
        new_tokens == Split(Get(new_boot_args_container, "boot-args", Str("")).v)
        RECURSIVE AddNew(_, _)
        AddNew(out, i) ==
            IF i > Len(new_tokens) THEN out
            ELSE IF new_tokens[i] \in Range(out) THEN AddNew(out, i + 1)
                 ELSE AddNew(Append(out, new_tokens[i]), i + 1)
        RECURSIVE Distinct(_, _)
        Distinct(out, i) ==
            IF i > Len(main_tokens) THEN out
            ELSE IF main_tokens[i] \in Range(out) THEN Distinct(out, i + 1)
                 ELSE Distinct(Append(out, main_tokens[i]), i + 1)
        final_boot_args == Join(" ", AddNew(Distinct(<<>>, 1), 1))
        updated ==
            IF final_boot_args # ""
            THEN Put(main_boot_args_container, "boot-args", Str(final_boot_args))
            ELSE Del(main_boot_args_container, "boot-args")
    IN  Dict(Put(main_value.m, "Add",
                 Dict(Put(main_value.m["Add"].m, guid_key, Dict(updated)))))

\* A merge of boot-args in which the incoming container replaces the one held:
\* the generic overwrite of line 210 applied to the container.
MergeBootArgs_Overwrite(main_value, new_value) ==
    Dict(Put(main_value.m, "Add",
             Dict(Put(main_value.m["Add"].m, guid_key, new_value.m["Add"].m[guid_key]))))

\* Lines 175-195: both NVRAM sections hold the boot-args container.
MergeBootArgs(main_value, new_value) ==
    LET main_boot_args_container == main_value.m["Add"].m[guid_key].m
        new_boot_args_container == new_value.m["Add"].m[guid_key].m
        main_boot_args_str == Get(main_boot_args_container, "boot-args", Str("")).v
        new_boot_args_str == Get(new_boot_args_container, "boot-args", Str("")).v
        combined_args_set == Range(Split(main_boot_args_str)) \cup Range(Split(new_boot_args_str))
        final_boot_args == Join(" ", SortedStrings({a \in combined_args_set : a # ""}))
        updated ==
            IF final_boot_args # ""
            THEN Put(main_boot_args_container, "boot-args", Str(final_boot_args))
            ELSE IF "boot-args" \in DOMAIN main_boot_args_container
                 THEN Del(main_boot_args_container, "boot-args")
                 ELSE main_boot_args_container
        with_sub_keys ==
            [k \in DOMAIN updated \cup (DOMAIN new_boot_args_container \ {"boot-args"}) |->
                IF k # "boot-args" /\ k \in DOMAIN new_boot_args_container
                THEN new_boot_args_container[k]
                ELSE updated[k]]
    IN  Dict(Put(main_value.m, "Add",
                 Dict(Put(main_value.m["Add"].m, guid_key, Dict(with_sub_keys)))))

\* Lines 199-208: both values are lists.
MergeLists(main_dict, key, main_value, new_value) ==
    IF key = "Add" /\ SameObjectInDict(main_dict, "Kernel", key)
    THEN LET RECURSIVE AppendUnique(_, _)
             AppendUnique(list, i) ==
                 IF i > Len(new_value.s) THEN list
                 ELSE IF BundlePathOf(new_value.s[i]) \notin {BundlePathOf(list[j]) : j \in 1..Len(list)}
                      THEN AppendUnique(Append(list, new_value.s[i]), i + 1)
                      ELSE AppendUnique(list, i + 1)
         IN  List(AppendUnique(main_value.s, 1))
    ELSE List(main_value.s \o new_value.s)

RECURSIVE merge_config_dicts(_, _)
RECURSIVE MergeKeys(_, _, _)

\* One turn of the loop of line 163, for key: the value main_dict[key] holds afterwards.
MergeKey(main_dict, key, new_value) ==
    IF key \notin DOMAIN main_dict
    THEN new_value
    ELSE LET main_value == main_dict[key] IN
         IF IsDict(main_value) /\ IsDict(new_value)
         THEN IF /\ key = "NVRAM"
                 /\ "Add" \in DOMAIN main_value.m
                 /\ "Add" \in DOMAIN new_value.m
                 /\ HasKey(main_value.m["Add"], guid_key)
                 /\ HasKey(new_value.m["Add"], guid_key)
              THEN MergeBootArgs(main_value, new_value)
              ELSE Dict(merge_config_dicts(main_value.m, new_value.m))
         ELSE IF IsList(main_value) /\ IsList(new_value)
              THEN MergeLists(main_dict, key, main_value, new_value)
              ELSE new_value

\* The loop of line 163 over the keys of new_dict still to do.  The keys of
\* new_dict are distinct and each turn writes main_dict[key] only, so the
\* order of the turns does not change the result.
MergeKeys(main_dict, new_dict, todo) ==
    IF todo = {} THEN main_dict
    ELSE LET key == CHOOSE k \in todo : TRUE
         IN  MergeKeys(Put(main_dict, key, MergeKey(main_dict, key, new_dict[key])),
                       new_dict, todo \ {key})

\* merge_config_dicts(main_dict, new_dict): main_dict (a dict's key -> value
\* map) after the call, which is also the value returned.
merge_config_dicts(main_dict, new_dict) == MergeKeys(main_dict, new_dict, DOMAIN new_dict)

(***************************************************************************)
(* merge_config_dicts on objects.  A dict is an object: two names can hold *)
(* the same dict, and what is written through one is read through the      *)
(* other.  The heap maps the address of every dict to its key -> value map, *)
(* a value being a leaf, a list, or the address of a dict.  The dict at     *)
(* path p of the i-th tree merged is created at address <<i, p>>, the       *)
(* accumulator (line 215) at <<0, <<>>>>.  Lists are values: the code       *)
(* replaces main_dict[key] by a new list (line 208) and never writes into a *)
(* list or into an element of one.                                         *)
(***************************************************************************)

Ref(address) == [t |-> "ref", a |-> address]

IsRef(x) == x.t = "ref"

\* The address of the accumulator.
Root == <<0, <<>>>>

\* final_opencore_config = {} (line 215)
InitialHeap == [address \in {Root} |-> EmptyMap]

RECURSIVE DictPaths(_, _)
\* The paths, from path on, of tree and of the dicts below it.
DictPaths(tree, path) ==
    {path} \cup UNION {DictPaths(tree[k].m, Append(path, k)) : k \in {j \in DOMAIN tree : IsDict(tree[j])}}

RECURSIVE SubtreeAt(_, _)
SubtreeAt(tree, path) ==
    IF path = <<>> THEN tree ELSE SubtreeAt(tree[Head(path)].m, Tail(path))

\* The objects of a tree the caller built as its i-th partial tree.
Objects(tree, i) ==
    [address \in {<<i, p>> : p \in DictPaths(tree, <<>>)} |->
        LET d == SubtreeAt(tree, address[2])
        IN  [k \in DOMAIN d |-> IF IsDict(d[k]) THEN Ref(<<i, Append(address[2], k)>>) ELSE d[k]]]

RECURSIVE Deref(_, _)
\* The tree read from the dict at address: its key -> value map.
Deref(h, address) ==
    [k \in DOMAIN h[address] |->
        IF IsRef(h[address][k]) THEN Dict(Deref(h, h[address][k].a)) ELSE h[address][k]]

\* d[key] = value, d the dict at address
SetItem(h, address, key, value) == [h EXCEPT ![address] = Put(@, key, value)]

\* del d[key]
DelItem(h, address, key) == [h EXCEPT ![address] = Del(@, key)]

\* key in x, for x a value of the heap
RefHasKey(h, x, key) == IsRef(x) /\ key \in DOMAIN h[x.a]

RECURSIVE SetItems(_, _, _, _)
\* The loop of line 193: every key of todo is written into the dict at address.
SetItems(h, address, source, todo) ==
    IF todo = {} THEN h
    ELSE LET sub_key == CHOOSE k \in todo : TRUE
         IN  SetItems(SetItem(h, address, sub_key, source[sub_key]), address, source, todo \ {sub_key})

\* Lines 175-195 on objects: the heap afterwards.
MergeBootArgsInPlace(h, main_value, new_value) ==
    LET main_boot_args_container == h[main_value.a]["Add"].a
        new_boot_args_container == h[new_value.a]["Add"].a
        main_container == h[h[main_boot_args_container][guid_key].a]
        new_container == h[h[new_boot_args_container][guid_key].a]
        container == h[main_boot_args_container][guid_key].a
        main_boot_args_str == Get(main_container, "boot-args", Str("")).v
        new_boot_args_str == Get(new_container, "boot-args", Str("")).v
        combined_args_set == Range(Split(main_boot_args_str)) \cup Range(Split(new_boot_args_str))
        final_boot_args == Join(" ", SortedStrings({a \in combined_args_set : a # ""}))
        updated ==
            IF final_boot_args # ""
            THEN SetItem(h, container, "boot-args", Str(final_boot_args))
            ELSE IF "boot-args" \in DOMAIN main_container
                 THEN DelItem(h, container, "boot-args")
                 ELSE h
    IN  SetItems(updated, container, new_container, DOMAIN new_container \ {"boot-args"})

RECURSIVE MergeInPlace(_, _, _, _)

\* One turn of the loop of line 163 on objects, for key: the heap afterwards.
MergeKeyInPlace(h, main_dict, key, new_value) ==
    IF key \notin DOMAIN h[main_dict]
    THEN SetItem(h, main_dict, key, new_value)
    ELSE LET main_value == h[main_dict][key] IN
         IF IsRef(main_value) /\ IsRef(new_value)
         THEN IF /\ key = "NVRAM"
                 /\ "Add" \in DOMAIN h[main_value.a]
                 /\ "Add" \in DOMAIN h[new_value.a]
                 /\ RefHasKey(h, h[main_value.a]["Add"], guid_key)
                 /\ RefHasKey(h, h[new_value.a]["Add"], guid_key)
              THEN MergeBootArgsInPlace(h, main_value, new_value)
              ELSE MergeInPlace(h, main_value.a, new_value.a, DOMAIN h[new_value.a])
         ELSE IF IsList(main_value) /\ IsList(new_value)
              THEN SetItem(h, main_dict, key, MergeLists(h[main_dict], key, main_value, new_value))
              ELSE SetItem(h, main_dict, key, new_value)

\* merge_config_dicts(main_dict, new_dict) on objects, main_dict and new_dict
\* the addresses of two dicts, todo the keys of new_dict still to visit: the
\* heap afterwards.
MergeInPlace(h, main_dict, new_dict, todo) ==
    IF todo = {} THEN h
    ELSE LET key == CHOOSE k \in todo : TRUE
         IN  MergeInPlace(MergeKeyInPlace(h, main_dict, key, h[new_dict][key]),
                          main_dict, new_dict, todo \ {key})

(***************************************************************************)
(* skyscope_config_parts.py: the component registry                        *)
(***************************************************************************)

KextInfo(bundle_path, comment, executable_path) ==
    [k \in {"BundlePath", "Comment", "ExecutablePath"} |->
        IF k = "BundlePath" THEN Str(bundle_path)
        ELSE IF k = "Comment" THEN Str(comment)
        ELSE Str(executable_path)]

KEXT_INFO_DB ==
    [name \in {"Lilu", "VirtualSMC", "WhateverGreen", "AppleALC", "RealtekRTL8111",
               "LucyRTL8125Ethernet", "IntelMausi", "SMCProcessor", "SMCSuperIO", "NVMeFix"} |->
        CASE name = "Lilu" ->
               KextInfo("Lilu.kext", "Core kext patching library", "Contents/MacOS/Lilu")
          [] name = "VirtualSMC" ->
               KextInfo("VirtualSMC.kext", "Advanced SMC emulator", "Contents/MacOS/VirtualSMC")
          [] name = "WhateverGreen" ->
               KextInfo("WhateverGreen.kext", "Graphics card patching (Intel, AMD, NVIDIA)",
                        "Contents/MacOS/WhateverGreen")
          [] name = "AppleALC" ->
               KextInfo("AppleALC.kext", "Audio patching for unsupported codecs",
                        "Contents/MacOS/AppleALC")
          [] name = "RealtekRTL8111" ->
               KextInfo("RealtekRTL8111.kext", "Realtek Gigabit Ethernet (RTL8111/8168)",
                        "Contents/MacOS/RealtekRTL8111")
          [] name = "LucyRTL8125Ethernet" ->
               KextInfo("LucyRTL8125Ethernet.kext", "Realtek 2.5Gb Ethernet (RTL8125)",
                        "Contents/MacOS/LucyRTL8125Ethernet")
          [] name = "IntelMausi" ->
               KextInfo("IntelMausi.kext", "Intel Ethernet LAN kext (most common Intel NICs)",
                        "Contents/MacOS/IntelMausi")
          [] name = "SMCProcessor" ->
               KextInfo("SMCProcessor.kext", "VirtualSMC Plugin for CPU temperature monitoring",
                        "Contents/MacOS/SMCProcessor")
          [] name = "SMCSuperIO" ->
               KextInfo("SMCSuperIO.kext", "VirtualSMC Plugin for fan speed monitoring",
                        "Contents/MacOS/SMCSuperIO")
          [] name = "NVMeFix" ->
               KextInfo("NVMeFix.kext", "NVMe power management and compatibility fixes",
                        "Contents/MacOS/NVMeFix")]

COMMON_KEXT_PROPERTIES ==
    [k \in {"Arch", "Enabled", "MaxKernel", "MinKernel", "PlistPath"} |->
        CASE k = "Arch" -> Str("Any")
          [] k = "Enabled" -> Bool(TRUE)
          [] k = "MaxKernel" -> Str("")
          [] k = "MinKernel" -> Str("")
          [] k = "PlistPath" -> Str("Contents/Info.plist")]

\* d.update(other) on key -> value maps
Update(d, other) == [k \in DOMAIN d \cup DOMAIN other |-> IF k \in DOMAIN other THEN other[k] ELSE d[k]]

\* entry = KEXT_INFO_DB[kext_name].copy(); entry.update(COMMON_KEXT_PROPERTIES)
NewKextEntry(kext_name) == Dict(Update(KEXT_INFO_DB[kext_name], COMMON_KEXT_PROPERTIES))

\* entry = KEXT_INFO_DB[kext_name]; entry.update(COMMON_KEXT_PROPERTIES),
\* the entry taken without copy(): the tables afterwards.
Instantiate_InPlace(reg, kext_name) ==
    [reg EXCEPT !.KEXT_INFO_DB[kext_name] = Update(@, reg.COMMON_KEXT_PROPERTIES)]

\* entry = KEXT_INFO_DB[kext_name].copy(); entry.update(COMMON_KEXT_PROPERTIES),
\* and any later assignment to entry: the tables afterwards.  The values of
\* an entry are strings and booleans, so the copy shares nothing that can
\* be written to.
Instantiate(reg, kext_name) == reg

RECURSIVE InstantiateAll(_, _)
\* The tables after one instantiation per name of kext_names.
InstantiateAll(reg, kext_names) ==
    IF kext_names = <<>> THEN reg
    ELSE InstantiateAll(Instantiate(reg, Head(kext_names)), Tail(kext_names))

\* The Kernel/Add entries of a partial tree.
KernelAddEntries(tree) ==
    IF "Kernel" \in DOMAIN tree /\ "Add" \in DOMAIN tree["Kernel"].m
    THEN tree["Kernel"].m["Add"].s
    ELSE <<>>

\* The registry names the entries were instantiated from, in order.
InstantiatedNames(entries) ==
    [i \in 1..Len(entries) |->
        CHOOSE n \in DOMAIN KEXT_INFO_DB : KEXT_INFO_DB[n]["BundlePath"] = BundlePathOf(entries[i])]

(***************************************************************************)
(* skyscope_config_parts.py: generate_cpu_config_parts                     *)
(***************************************************************************)

AcpiPatch(comment, path) ==
    Dict([k \in {"Comment", "Enabled", "Path"} |->
            IF k = "Comment" THEN Str(comment) ELSE IF k = "Enabled" THEN Bool(TRUE) ELSE Str(path)])

\* Lines 110-115, on the lower-cased brand string.
is_modern_intel_desktop(cpu_brand_raw) ==
    /\ Contains(cpu_brand_raw, "intel")
    /\ \/ Contains(cpu_brand_raw, "core")
       \/ Contains(cpu_brand_raw, "pentium")
       \/ Contains(cpu_brand_raw, "celeron")
    /\ \/ \E gen_tag \in {"8th gen", "9th gen", "10th gen", "11th gen", "12th gen",
                           "13th gen", "14th gen"} : Contains(cpu_brand_raw, gen_tag)
       \/ \E prefix \in {"intel(r) core(tm) i3-", "intel(r) core(tm) i5-",
                          "intel(r) core(tm) i7-", "intel(r) core(tm) i9-"} :
             StartsWith(cpu_brand_raw, prefix)

\* cpu_info_dict.get('brand_raw', "").lower()
BrandLower(cpu_info_dict) == Lower(Get(cpu_info_dict.m, "brand_raw", Str("")).v)

\* generate_cpu_config_parts(cpu_info_dict, target_smbios); rom_bytes is what
\* os.urandom(6) returned.
generate_cpu_config_parts(cpu_info_dict, target_smbios, rom_bytes) ==
    IF ~IsDict(cpu_info_dict) THEN EmptyMap
    ELSE
    LET modern == is_modern_intel_desktop(BrandLower(cpu_info_dict))
        acpi_add ==
            IF modern
            THEN <<AcpiPatch("SSDT-PLUG-ALT - CPU Power Management", "SSDT-PLUG-ALT.aml"),
                   AcpiPatch("SSDT-EC-USBX-DESKTOP - Embedded Controller and USBX Fix",
                             "SSDT-EC-USBX-DESKTOP.aml"),
                   AcpiPatch("SSDT-AWAC-DISABLE - Disable AWAC, use system RTC",
                             "SSDT-AWAC-DISABLE.aml"),
                   AcpiPatch("SSDT-RHUB - USB Reset", "SSDT-RHUB.aml")>>
            ELSE <<>>
        kernel_add ==
            (IF modern THEN <<NewKextEntry("SMCProcessor"), NewKextEntry("SMCSuperIO")>> ELSE <<>>)
            \o <<NewKextEntry("NVMeFix")>>
        quirks ==
            [k \in {"ProvideCurrentCpuInfo", "AppleXcpmCfgLock", "AppleCpuPmCfgLock",
                    "DummyPowerManagement"} |->
                Bool(k \in {"ProvideCurrentCpuInfo", "AppleXcpmCfgLock"})]
        emulate == [k \in {"Cpuid1Data", "Cpuid1Mask"} |-> Bytes(<<>>)]
        generic ==
            [k \in {"SystemProductName", "ProcessorType", "ROM", "SystemSerialNumber", "MLB",
                    "SystemUUID", "SpoofVendor"} |->
                CASE k = "SystemProductName" -> Str(target_smbios)
                  [] k = "ProcessorType" -> Num(0)
                  [] k = "ROM" -> Bytes(rom_bytes)
                  [] k = "SystemSerialNumber" -> Str("NOT_YET_GENERATED_SERIAL")
                  [] k = "MLB" -> Str("NOT_YET_GENERATED_MLB")
                  [] k = "SystemUUID" -> Str("NOT_YET_GENERATED_UUID")
                  [] k = "SpoofVendor" -> Bool(TRUE)]
    IN  [k \in {"ACPI", "Kernel", "PlatformInfo"} |->
            CASE k = "ACPI" -> Dict([a \in {"Add"} |-> List(acpi_add)])
              [] k = "Kernel" ->
                   Dict([a \in {"Add", "Quirks", "Emulate"} |->
                           IF a = "Add" THEN List(kernel_add)
                           ELSE IF a = "Quirks" THEN Dict(quirks) ELSE Dict(emulate)])
              [] k = "PlatformInfo" -> Dict([a \in {"Generic"} |-> Dict(generic)])]

(***************************************************************************)
(* skyscope_config_parts.py: generate_gpu_config_parts                     *)
(***************************************************************************)

HexDigits == "0123456789abcdef"

\* The value of one hexadecimal digit, either case.
HexVal(c) == (CHOOSE i \in 1..Len(HexDigits) : CharAt(HexDigits, i) = LowerChar(c)) - 1

RECURSIVE HexToInt(_)
\* int(s, 16)
HexToInt(s) ==
    IF s = "" THEN 0
    ELSE 16 * HexToInt(SubSeq(s, 1, Len(s) - 1)) + HexVal(CharAt(s, Len(s)))

RECURSIVE FromHex(_)
\* bytes.fromhex(s)
FromHex(s) ==
    IF Len(s) < 2 THEN <<>>
    ELSE <<HexToInt(SubSeq(s, 1, 2))>> \o FromHex(SubSeq(s, 3, Len(s)))

\* n.to_bytes(2, 'little')
ToBytes2Little(n) == <<n % 256, (n \div 256) % 256>>

intel_gt1_desktop_dids ==
    {"4680", "4690", "a780", "46a0", "4682", "4692", "a782", "a788", "46a2",
     "468b", "469b", "a78b"}

\* x.get(key, "") has no method lower()/upper(): x is no dict, or the field
\* holds None.
FieldNotStr(x, key) == ~IsDict(x) \/ Get(x.m, key, Str("")).t # "str"

\* The loop of line 175 raises AttributeError at a descriptor whose VendorID
\* or DeviceID is None.
GpuRaises(gpu_list) ==
    IsList(gpu_list) /\
    \E i \in 1..Len(gpu_list.s) :
        FieldNotStr(gpu_list.s[i], "VendorID") \/ FieldNotStr(gpu_list.s[i], "DeviceID")

\* One turn of the loop of line 175; st holds the locals of lines 159-174.
GpuStep(st, gpu, cpu_brand_raw) ==
    LET vid == Lower(Get(gpu.m, "VendorID", Str("")).v)
        did == Lower(Get(gpu.m, "DeviceID", Str("")).v)
        is_target_cpu_gen ==
            \E gen_tag \in {"12th gen intel core", "13th gen intel core", "14th gen intel core"} :
                Contains(cpu_brand_raw, gen_tag)
        igpu_props ==
            [k \in {"AAPL,ig-platform-id", "device-id", "framebuffer-patch-enable",
                    "framebuffer-stolenmem"} |->
                CASE k = "AAPL,ig-platform-id" -> Bytes(FromHex("0B00A000"))
                  [] k = "device-id" -> Bytes(ToBytes2Little(HexToInt(did)) \o <<0, 0>>)
                  [] k = "framebuffer-patch-enable" -> Bytes(FromHex("01000000"))
                  [] k = "framebuffer-stolenmem" -> Bytes(FromHex("00000004"))]
    IN  IF vid = "8086"
        THEN IF is_target_cpu_gen /\ did \in intel_gt1_desktop_dids
             THEN [st EXCEPT
                     !.device_properties_add = Put(@, "PciRoot(0x0)/Pci(0x2,0x0)", Dict(igpu_props)),
                     !.boot_args_to_add = Append(@, "agdpmod=pikera"),
                     !.has_active_igpu = TRUE,
                     !.is_any_gpu_configured = TRUE]
             ELSE st
        ELSE IF vid = "10de"
        THEN [st EXCEPT
                !.is_any_gpu_configured = TRUE,
                !.boot_args_to_add = IF st.has_active_igpu THEN Append(@, "-wegnoegpu") ELSE @]
        ELSE IF vid = "1002"
        THEN [st EXCEPT
                !.boot_args_to_add = Append(@, "agdpmod=pikera"),
                !.is_any_gpu_configured = TRUE]
        ELSE st

RECURSIVE GpuLoop(_, _, _)
GpuLoop(st, gpus, cpu_brand_raw) ==
    IF gpus = <<>> THEN st
    ELSE GpuLoop(GpuStep(st, Head(gpus), cpu_brand_raw), Tail(gpus), cpu_brand_raw)

\* generate_gpu_config_parts with the block of lines 217-223 moved into the
\* loop and its test on added_kexts_gpu_set dropped: one WhateverGreen entry
\* for every descriptor that sets is_any_gpu_configured.
generate_gpu_config_parts_EntryPerGpu(gpu_list, cpu_info_dict) ==
    LET gpus == IF IsList(gpu_list) THEN gpu_list.s ELSE <<>>
        cpu_brand_raw == IF IsDict(cpu_info_dict) THEN BrandLower(cpu_info_dict) ELSE ""
        initial == [device_properties_add |-> EmptyMap,
                    boot_args_to_add |-> <<>>,
                    has_active_igpu |-> FALSE,
                    is_any_gpu_configured |-> FALSE]
        st == GpuLoop(initial, gpus, cpu_brand_raw)
        configured ==
            SelectSeq(gpus, LAMBDA gpu : GpuStep(initial, gpu, cpu_brand_raw).is_any_gpu_configured)
        kernel_add_gpu == [i \in 1..Len(configured) |-> NewKextEntry("WhateverGreen")]
        boot_args ==
            IF st.boot_args_to_add # <<>>
            THEN Join(" ", SortedStrings(Range(st.boot_args_to_add)))
            ELSE ""
    IN  [k \in {"DeviceProperties", "NVRAM", "Kernel"} |->
            CASE k = "DeviceProperties" -> Dict([a \in {"Add"} |-> Dict(st.device_properties_add)])
              [] k = "NVRAM" ->
                   Dict([a \in {"Add"} |->
                           Dict([g \in {guid_key} |-> Dict([b \in {"boot-args"} |-> Str(boot_args)])])])
              [] k = "Kernel" -> Dict([a \in {"Add"} |-> List(kernel_add_gpu)])]

\* generate_gpu_config_parts(gpu_details_list, cpu_info_dict), here with
\* gpu_list for the first parameter (the script has a variable of its name), when it does
\* not raise.
generate_gpu_config_parts(gpu_list, cpu_info_dict) ==
    LET gpus == IF IsList(gpu_list) THEN gpu_list.s ELSE <<>>
        cpu_brand_raw == IF IsDict(cpu_info_dict) THEN BrandLower(cpu_info_dict) ELSE ""
        st == GpuLoop([device_properties_add |-> EmptyMap,
                       boot_args_to_add |-> <<>>,
                       has_active_igpu |-> FALSE,
                       is_any_gpu_configured |-> FALSE], gpus, cpu_brand_raw)
        kernel_add_gpu ==
            IF st.is_any_gpu_configured THEN <<NewKextEntry("WhateverGreen")>> ELSE <<>>
        boot_args ==
            IF st.boot_args_to_add # <<>>
            THEN Join(" ", SortedStrings(Range(st.boot_args_to_add)))
            ELSE ""
    IN  [k \in {"DeviceProperties", "NVRAM", "Kernel"} |->
            CASE k = "DeviceProperties" -> Dict([a \in {"Add"} |-> Dict(st.device_properties_add)])
              [] k = "NVRAM" ->
                   Dict([a \in {"Add"} |->
                           Dict([g \in {guid_key} |-> Dict([b \in {"boot-args"} |-> Str(boot_args)])])])
              [] k = "Kernel" -> Dict([a \in {"Add"} |-> List(kernel_add_gpu)])]

(***************************************************************************)
(* skyscope_config_parts.py: generate_audio_config_parts                   *)
(***************************************************************************)

target_codec_vid == "10EC"
chosen_layout_id == 11

\* n.to_bytes(4, byteorder='little')
ToBytes4Little(n) ==
    <<n % 256, (n \div 256) % 256, (n \div 65536) % 256, (n \div 16777216) % 256>>

RECURSIVE DecimalDigits(_)
\* str(n) for n >= 0
DecimalDigits(n) ==
    IF n < 10 THEN CharAt("0123456789", n + 1)
    ELSE DecimalDigits(n \div 10) \o CharAt("0123456789", (n % 10) + 1)

\* The descriptor the loop of line 253 stops at: it matches the Realtek
\* marker (line 258).
AudioMatches(device) ==
    /\ ~FieldNotStr(device, "Name")
    /\ ~FieldNotStr(device, "PNPDeviceID")
    /\ LET vendor_id == Get(device.m, "VendorID", Str(""))
           pnp_id == Upper(Get(device.m, "PNPDeviceID", Str("")).v)
       IN  /\ Contains(pnp_id, "HDAUDIO")
           /\ vendor_id.t = "str" /\ vendor_id.v # ""
           /\ Upper(vendor_id.v) = target_codec_vid

\* The index of the first matching descriptor, 0 when there is none.
FirstAudioMatch(devices) ==
    IF \E i \in 1..Len(devices) : AudioMatches(devices[i])
    THEN CHOOSE i \in 1..Len(devices) :
            AudioMatches(devices[i]) /\ \A j \in 1..(i - 1) : ~AudioMatches(devices[j])
    ELSE 0

\* The loop of line 253 without the break of line 272: it raises at any
\* descriptor whose Name or PNPDeviceID is None.
AudioRaises_NoBreak(audio_devices_list) ==
    IsList(audio_devices_list) /\
    \E i \in 1..Len(audio_devices_list.s) :
        \/ FieldNotStr(audio_devices_list.s[i], "Name")
        \/ FieldNotStr(audio_devices_list.s[i], "PNPDeviceID")

\* The loop of line 253 raises AttributeError at a descriptor whose Name or
\* PNPDeviceID is None, unless it stopped (break) at an earlier descriptor.
AudioRaises(audio_devices_list) ==
    IsList(audio_devices_list) /\
    \E i \in 1..Len(audio_devices_list.s) :
        /\ \/ FieldNotStr(audio_devices_list.s[i], "Name")
           \/ FieldNotStr(audio_devices_list.s[i], "PNPDeviceID")
        /\ \A j \in 1..(i - 1) :
             ~FieldNotStr(audio_devices_list.s[j], "Name")
             /\ ~FieldNotStr(audio_devices_list.s[j], "PNPDeviceID")
             /\ ~AudioMatches(audio_devices_list.s[j])

\* generate_audio_config_parts(audio_devices_list), when it does not raise.
generate_audio_config_parts(audio_devices_list) ==
    LET devices == IF IsList(audio_devices_list) THEN audio_devices_list.s ELSE <<>>
        found_onboard_audio == FirstAudioMatch(devices) # 0
        audio_props == [k \in {"layout-id"} |-> Bytes(ToBytes4Little(chosen_layout_id))]
        device_properties_add ==
            IF found_onboard_audio
            THEN [k \in {"PciRoot(0x0)/Pci(0x1F,0x3)"} |-> Dict(audio_props)]
            ELSE EmptyMap
        boot_args_to_add_list ==
            IF found_onboard_audio THEN <<"alcid=" \o DecimalDigits(chosen_layout_id)>> ELSE <<>>
        kernel_add_audio == IF found_onboard_audio THEN <<NewKextEntry("AppleALC")>> ELSE <<>>
        boot_args ==
            IF boot_args_to_add_list # <<>>
            THEN Join(" ", SortedStrings(Range(boot_args_to_add_list)))
            ELSE ""
        nvram == Dict([a \in {"Add"} |->
                    Dict([g \in {guid_key} |-> Dict([b \in {"boot-args"} |-> Str(boot_args)])])])
        \* lines 285-293: the NVRAM section is deleted when nothing was found
        \* (its boot-args is then empty, and it holds nothing else)
        keep_nvram == found_onboard_audio \/ boot_args # ""
    IN  [k \in {"DeviceProperties", "Kernel"} \cup (IF keep_nvram THEN {"NVRAM"} ELSE {}) |->
            CASE k = "DeviceProperties" -> Dict([a \in {"Add"} |-> Dict(device_properties_add)])
              [] k = "NVRAM" -> nvram
              [] k = "Kernel" -> Dict([a \in {"Add"} |-> List(kernel_add_audio)])]

(***************************************************************************)
(* skyscope_config_parts.py: generate_ethernet_config_parts                *)
(***************************************************************************)

\* The loop of line 306 raises AttributeError at a descriptor whose VendorID
\* or DeviceID is None.
EthernetRaises(ethernet_devices_list) ==
    IsList(ethernet_devices_list) /\
    \E i \in 1..Len(ethernet_devices_list.s) :
        \/ FieldNotStr(ethernet_devices_list.s[i], "VendorID")
        \/ FieldNotStr(ethernet_devices_list.s[i], "DeviceID")

\* Lines 314-323: the driver for a (vendor, device) pair, None when there is none.
kext_name_to_use(vendor_id, device_id) ==
    IF vendor_id = "10EC"
    THEN IF device_id = "8168" \/ device_id = "8111" THEN Str("RealtekRTL8111")
         ELSE IF device_id = "8125" THEN Str("LucyRTL8125Ethernet")
         ELSE None
    ELSE IF vendor_id = "8086" THEN Str("IntelMausi")
    ELSE None

\* str(x) as an f-string prints a field: the text of a string, "None" for None.
Format(x) == IF x.t = "str" THEN x.v ELSE "None"

\* bool(x) of a field: a non-empty string.
Truthy(x) == x.t = "str" /\ x.v # ""

\* One turn of the loop of line 306 with the test of line 328 reduced to
\* kext_name_to_use: an entry for every device with a driver.
EthernetStep_EveryDevice(kernel_add_entries, added_kexts_set, device) ==
    LET vendor_id == Upper(Get(device.m, "VendorID", Str("")).v)
        device_id == Upper(Get(device.m, "DeviceID", Str("")).v)
        device_name_for_comment ==
            IF Truthy(Get(device.m, "ProductName", None))
            THEN device.m["ProductName"]
            ELSE Get(device.m, "Name", Str("Unknown Ethernet"))
        kext == kext_name_to_use(vendor_id, device_id)
    IN  IF kext # None /\ kext.v \in DOMAIN KEXT_INFO_DB
        THEN LET kext_entry == NewKextEntry(kext.v).m
                 comment == Get(kext_entry, "Comment", kext).v \o " for "
                            \o Format(device_name_for_comment)
                            \o " (VID:" \o vendor_id \o " DID:" \o device_id \o ")"
             IN  [entries |-> Append(kernel_add_entries, Dict(Put(kext_entry, "Comment", Str(comment)))),
                  added |-> added_kexts_set \cup {kext.v}]
        ELSE [entries |-> kernel_add_entries, added |-> added_kexts_set]

\* One turn of the loop of line 306: kernel_add_entries afterwards.  The
\* names of added_kexts_set are those of the entries added so far.
EthernetStep(kernel_add_entries, added_kexts_set, device) ==
    LET vendor_id == Upper(Get(device.m, "VendorID", Str("")).v)
        device_id == Upper(Get(device.m, "DeviceID", Str("")).v)
        device_name_for_comment ==
            IF Truthy(Get(device.m, "ProductName", None))
            THEN device.m["ProductName"]
            ELSE Get(device.m, "Name", Str("Unknown Ethernet"))
        kext == kext_name_to_use(vendor_id, device_id)
    IN  IF kext # None /\ kext.v \notin added_kexts_set /\ kext.v \in DOMAIN KEXT_INFO_DB
        THEN LET kext_entry == NewKextEntry(kext.v).m
                 comment == Get(kext_entry, "Comment", kext).v \o " for "
                            \o Format(device_name_for_comment)
                            \o " (VID:" \o vendor_id \o " DID:" \o device_id \o ")"
             IN  [entries |-> Append(kernel_add_entries, Dict(Put(kext_entry, "Comment", Str(comment)))),
                  added |-> added_kexts_set \cup {kext.v}]
        ELSE [entries |-> kernel_add_entries, added |-> added_kexts_set]

RECURSIVE EthernetLoop(_, _, _)
EthernetLoop(kernel_add_entries, added_kexts_set, devices) ==
    IF devices = <<>> THEN kernel_add_entries
    ELSE LET st == EthernetStep(kernel_add_entries, added_kexts_set, Head(devices))
         IN  EthernetLoop(st.entries, st.added, Tail(devices))

\* generate_ethernet_config_parts(ethernet_devices_list), when it does not raise.
generate_ethernet_config_parts(ethernet_devices_list) ==
    LET devices == IF IsList(ethernet_devices_list) THEN ethernet_devices_list.s ELSE <<>>
        kernel_add_entries == EthernetLoop(<<>>, {}, devices)
    IN  IF kernel_add_entries # <<>>
        THEN [k \in {"Kernel"} |-> Dict([a \in {"Add"} |-> List(kernel_add_entries)])]
        ELSE EmptyMap

(***************************************************************************)
(* SpecMerge: merge_config_dicts called once per partial tree, the         *)
(* accumulator starting empty (skyscope_hwprobe.py line 215).              *)
(***************************************************************************)

MaxParts == 2      \* partial trees merged in one run
MaxArgLen == 2     \* length of a generated boot-args string

ArgChars == {"a", "b", " "}

RECURSIVE StringsOfLen(_)
StringsOfLen(n) ==
    IF n = 0 THEN {""}
    ELSE {s \o c : s \in StringsOfLen(n - 1), c \in ArgChars}

\* The boot-args strings a partial tree may carry: every string over ArgChars
\* up to MaxArgLen, and some strings of two tokens.
BootArgStrings == UNION {StringsOfLen(n) : n \in 0..MaxArgLen} \cup {"a c", "b a", "b ab"}

\* {"NVRAM": {"Add": {guid_key: container}}}
NvramTree(container) == Keys1("NVRAM", Dict(Keys1("Add", Dict(Keys1(guid_key, Dict(container))))))

NvramParts ==
    {NvramTree(Keys1("boot-args", Str(s))) : s \in BootArgStrings}
    \cup {NvramTree(EmptyMap),
          NvramTree(Keys1("prev-lang:kbd", Str("en-US:0"))),
          NvramTree(Keys2("boot-args", Str("b"), "prev-lang:kbd", Str("ru:252"))),
          Keys1("NVRAM", Dict(Keys1("Add", Dict(EmptyMap)))),
          Keys1("NVRAM", Dict(Keys1("WriteFlash", Bool(TRUE)))),
          Keys1("NVRAM", Dict(Keys2("WriteFlash", Bool(TRUE),
                                    "Add", Dict(Keys2(guid_key, Dict(Keys1("boot-args", Str("a"))),
                                                      "4D1EDE05-38C7-4A6A-9CC6-4BCCA8B38C14",
                                                      Dict(Keys1("DefaultBackgroundColor", Bytes(<<0, 0, 0, 0>>))))))))}

KextEntry(bundle_path, comment) ==
    Dict(Keys2("BundlePath", Str(bundle_path), "Comment", Str(comment)))

KernelTree(add) == Keys1("Kernel", Dict(Keys1("Add", List(add))))

\* Kernel/Add lists of up to two entries with distinct bundle paths; X.kext
\* comes with two different comments, so that two trees' X.kext entries can
\* be told apart.
KernelParts ==
    LET X1 == KextEntry("X.kext", "first")
        X2 == KextEntry("X.kext", "second")
        Y  == KextEntry("Y.kext", "other")
    IN  {KernelTree(add) : add \in {<<>>, <<X1>>, <<X2>>, <<Y>>, <<X1, Y>>, <<Y, X2>>}}

OtherParts ==
    {EmptyMap,
     Keys1("ACPI", Dict(Keys1("Add", List(<<Dict(Keys1("Path", Str("SSDT-PLUG-ALT.aml")))>>)))),
     Keys1("Kernel", Dict(Keys1("Quirks", Dict(Keys1("ProvideCurrentCpuInfo", Bool(TRUE)))))),
     Keys2("Kernel", Dict(Keys1("Add", List(<<KextEntry("X.kext", "second")>>))),
           "NVRAM", Dict(Keys1("Add", Dict(Keys1(guid_key, Dict(Keys1("boot-args", Str("c")))))))),
     Keys1("PlatformInfo", Dict(Keys1("Generic", Dict(Keys1("SystemProductName", Str("iMac20,2"))))))}

PartMenu == NvramParts \cup KernelParts \cup OtherParts

\* The script's probes have not run.
NotProbed ==
    /\ cpu_details_result = EmptyMap
    /\ gpu_details_list = None
    /\ audio_details_list = None
    /\ ethernet_details_list = None

\* No call of download_kext_zip has been made.
NoDownload ==
    /\ assets = <<>>
    /\ asset_pattern = None
    /\ fallback_asset_pattern = None
    /\ normcase_folds = FALSE
    /\ download_dir = None
    /\ calls = <<>>

\* No search of find_kext_in_dir is under way.
NoSearch ==
    /\ search_dir = {}
    /\ kext_name_pattern = None
    /\ is_plugin_search = FALSE
    /\ pending = {}
    /\ min_depth = 0
    /\ found_path = None

\* stage_kext has not been called.
NoStaging ==
    /\ kext_info = None
    /\ tmpdir = {}
    /\ kexts_staging = EmptyMap
    /\ staging_before = EmptyMap
    /\ staged_kext_paths = <<>>
    /\ stage_log = <<>>
    /\ stagers = <<>>

\* No generator has been called on its own.
NoGeneratorCall == gen_call = None

\* skyscope_config_parts has been imported: its tables are as written.
RegistryLoaded ==
    registry = [KEXT_INFO_DB |-> KEXT_INFO_DB, COMMON_KEXT_PROPERTIES |-> COMMON_KEXT_PROPERTIES]

InitMerge ==
    /\ final_opencore_config = EmptyMap
    /\ merged = <<>>
    /\ heap = InitialHeap
    /\ pc = "merge"
    /\ NotProbed
    /\ NoGeneratorCall
    /\ RegistryLoaded
    /\ NoDownload
    /\ NoSearch
    /\ NoStaging

\* final_opencore_config = merge_config_dicts(final_opencore_config, part)
MergePart ==
    /\ pc = "merge"
    /\ Len(merged) < MaxParts
    /\ \E part \in PartMenu :
          /\ final_opencore_config' = merge_config_dicts(final_opencore_config, part)
          /\ merged' = Append(merged, part)
          /\ \E created \in {Objects(part, Len(merged) + 1) @@ heap} :
                heap' = MergeInPlace(created, Root, <<Len(merged) + 1, <<>>>>, DOMAIN part)
    /\ UNCHANGED <<pc, probe_vars>>
    /\ UNCHANGED <<kext_vars, gen_call, registry>>

NextMerge == MergePart

SpecMerge == InitMerge /\ [][NextMerge]_vars

(***************************************************************************)
(* SpecPipeline: the script of skyscope_hwprobe.py (lines 214-298).  What   *)
(* the probes return is the script's input.                                *)
(***************************************************************************)

MaxGpus == 2         \* descriptors get_gpu_details() returns
MaxAudio == 1        \* descriptors get_audio_details() returns
MaxEthernet == 1     \* descriptors get_ethernet_details() returns

RECURSIVE SeqsUpTo(_, _)
\* The sequences over S of length n at most.
SeqsUpTo(S, n) ==
    IF n = 0 THEN {<<>>}
    ELSE SeqsUpTo(S, n - 1) \cup
         {Append(q, x) : q \in {r \in SeqsUpTo(S, n - 1) : Len(r) = n - 1}, x \in S}

\* brand_raw as py-cpuinfo reports it; None stands for an info dict without
\* the key.
CpuBrands ==
    {Str("12th Gen Intel(R) Core(TM) i7-12700K"),
     Str("12th Gen Intel Core i7-12700K"),
     Str("Intel(R) Core(TM) i5-9600K CPU @ 3.70GHz"),
     Str("AMD Ryzen 5 3600 6-Core Processor"),
     None}

\* Outcomes of os.urandom(6).
RomSeeds == {<<0, 0, 0, 0, 0, 0>>, <<222, 173, 190, 239, 0, 1>>}

Descriptor(name, vendor_id, device_id) ==
    Dict([k \in {"Name", "VendorID", "DeviceID"} |->
            IF k = "Name" THEN name ELSE IF k = "VendorID" THEN vendor_id ELSE device_id])

\* get_gpu_details() leaves VendorID and DeviceID None for a controller whose
\* PNPDeviceID holds no VEN_/DEV_ field.
GpuMenu ==
    {Descriptor(Str("Intel(R) UHD Graphics 770"), Str("8086"), Str("4680")),
     Descriptor(Str("Intel(R) UHD Graphics 630"), Str("8086"), Str("3E92")),
     Descriptor(Str("NVIDIA GeForce GTX 970"), Str("10DE"), Str("13C2")),
     Descriptor(Str("NVIDIA GeForce RTX 3070"), Str("10DE"), Str("2484")),
     Descriptor(Str("AMD Radeon RX 6800"), Str("1002"), Str("73BF")),
     Descriptor(Str("Microsoft Remote Display Adapter"), None, None)}

AudioDescriptor(name, pnp_device_id, vendor_id, device_id) ==
    Dict([k \in {"Name", "PNPDeviceID", "VendorID", "DeviceID"} |->
            CASE k = "Name" -> name
              [] k = "PNPDeviceID" -> pnp_device_id
              [] k = "VendorID" -> vendor_id
              [] k = "DeviceID" -> device_id])

AudioMenu ==
    {AudioDescriptor(Str("Realtek High Definition Audio"),
                     Str("HDAUDIO\\FUNC_01&VEN_10EC&DEV_0897"), Str("10EC"), Str("0897")),
     AudioDescriptor(Str("Realtek(R) Audio"),
                     Str("hdaudio\\func_01&ven_10ec&dev_1220"), Str("10ec"), Str("1220")),
     AudioDescriptor(Str("NVIDIA High Definition Audio"),
                     Str("HDAUDIO\\FUNC_01&VEN_10DE&DEV_0084"), Str("10DE"), Str("0084")),
     AudioDescriptor(Str("USB Audio Device"), Str("USB\\VID_0D8C&PID_0014&MI_00"), None, None),
     AudioDescriptor(None, Str("HDAUDIO\\FUNC_01&VEN_8086&DEV_2812"), Str("8086"), Str("2812"))}

EthernetDescriptor(product_name, name, vendor_id, device_id) ==
    Dict([k \in {"ProductName", "Name", "VendorID", "DeviceID"} |->
            CASE k = "ProductName" -> product_name
              [] k = "Name" -> name
              [] k = "VendorID" -> vendor_id
              [] k = "DeviceID" -> device_id])

\* get_ethernet_details() keeps only adapters with both IDs, upper-cased.
EthernetMenu ==
    {EthernetDescriptor(Str("Realtek PCIe GbE Family Controller"), Str("Ethernet"), Str("10EC"), Str("8168")),
     EthernetDescriptor(Str("Realtek Gaming 2.5GbE Family Controller"), Str("Ethernet 2"), Str("10EC"), Str("8125")),
     EthernetDescriptor(Str("Intel(R) Ethernet Connection I219-V"), Str("Ethernet 3"), Str("8086"), Str("15B8")),
     EthernetDescriptor(None, Str("Intel(R) Ethernet Controller I225-V"), Str("8086"), Str("15F3")),
     EthernetDescriptor(Str("Broadcom NetXtreme Gigabit Ethernet"), Str("Ethernet 5"), Str("14E4"), Str("1686"))}

InitPipeline ==
    /\ final_opencore_config = EmptyMap
    /\ merged = <<>>
    /\ heap = InitialHeap
    /\ pc = "cpu"
    /\ NotProbed
    /\ NoGeneratorCall
    /\ RegistryLoaded
    /\ NoDownload
    /\ NoSearch
    /\ NoStaging

\* A generated tree is merged into final_opencore_config; its Kernel/Add
\* entries were instantiated from the tables.
MergeGenerated(parts) ==
    /\ final_opencore_config' = merge_config_dicts(final_opencore_config, parts)
    /\ registry' = InstantiateAll(registry, InstantiatedNames(KernelAddEntries(parts)))

\* Lines 218-230: get_cpu_details(), then the CPU tree is merged unless the
\* probe reported an error.
DetectCpu ==
    /\ pc = "cpu"
    /\ \/ /\ cpu_details_result' = Keys1("error", Str("probe failed"))
          /\ UNCHANGED <<final_opencore_config, registry>>
       \/ \E brand \in CpuBrands, rom_bytes \in RomSeeds :
             LET info == IF brand = None THEN Keys1("arch_string_raw", Str("X86_64"))
                         ELSE Keys2("arch_string_raw", Str("X86_64"), "brand_raw", brand)
             IN  /\ cpu_details_result' =
                       Keys2("raw_info", Dict(info),
                             "brand_raw", Get(info, "brand_raw", Str("N/A")))
                 /\ \E parts \in {generate_cpu_config_parts(Dict(info), "iMac20,2", rom_bytes)} :
                       MergeGenerated(parts)
    /\ pc' = "gpu"
    /\ UNCHANGED <<merged, heap, gpu_details_list, audio_details_list, ethernet_details_list>>
    /\ UNCHANGED <<kext_vars, gen_call>>

\* Lines 233-245: get_gpu_details(), then the GPU tree is generated and
\* merged when the CPU probe left raw_info.
DetectGpu ==
    /\ pc = "gpu"
    /\ \E gpus \in SeqsUpTo(GpuMenu, MaxGpus) :
          /\ gpu_details_list' = List(gpus)
          /\ IF "raw_info" \in DOMAIN cpu_details_result
             THEN IF GpuRaises(List(gpus))
                  THEN pc' = "raised" /\ UNCHANGED <<final_opencore_config, registry>>
                  ELSE /\ \E parts \in {generate_gpu_config_parts(List(gpus),
                                                                  cpu_details_result["raw_info"])} :
                             MergeGenerated(parts)
                       /\ pc' = "audio"
             ELSE pc' = "audio" /\ UNCHANGED <<final_opencore_config, registry>>
    /\ UNCHANGED <<merged, heap, cpu_details_result, audio_details_list, ethernet_details_list>>
    /\ UNCHANGED <<kext_vars, gen_call>>

\* Lines 248-258
DetectAudio ==
    /\ pc = "audio"
    /\ \E devices \in SeqsUpTo(AudioMenu, MaxAudio) :
          /\ audio_details_list' = List(devices)
          /\ IF AudioRaises(List(devices))
             THEN pc' = "raised" /\ UNCHANGED <<final_opencore_config, registry>>
             ELSE /\ \E parts \in {generate_audio_config_parts(List(devices))} :
                        MergeGenerated(parts)
                  /\ pc' = "ethernet"
    /\ UNCHANGED <<merged, heap, cpu_details_result, gpu_details_list, ethernet_details_list>>
    /\ UNCHANGED <<kext_vars, gen_call>>

\* Lines 261-271
DetectEthernet ==
    /\ pc = "ethernet"
    /\ \E devices \in SeqsUpTo(EthernetMenu, MaxEthernet) :
          /\ ethernet_details_list' = List(devices)
          /\ IF EthernetRaises(List(devices))
             THEN pc' = "raised" /\ UNCHANGED <<final_opencore_config, registry>>
             ELSE /\ \E parts \in {generate_ethernet_config_parts(List(devices))} :
                        MergeGenerated(parts)
                  /\ pc' = "inject"
    /\ UNCHANGED <<merged, heap, cpu_details_result, gpu_details_list, audio_details_list>>
    /\ UNCHANGED <<kext_vars, gen_call>>

essential_kexts_order == <<"Lilu.kext", "VirtualSMC.kext">>

\* os.path.splitext(path)[0], for a path without directory part: the text
\* before the last dot, a leading dot not counted.
SplitExtRoot(path) ==
    LET dots == {i \in 2..Len(path) : CharAt(path, i) = "."}
    IN  IF dots = {} THEN path
        ELSE SubSeq(path, 1, (CHOOSE i \in dots : \A j \in dots : j <= i) - 1)

Reversed(seq) == [i \in 1..Len(seq) |-> seq[Len(seq) + 1 - i]]

RECURSIVE EnsureEssential_Append(_, _, _)
\* The loop of line 284 with append in place of insert(0, entry) at line 291.
EnsureEssential_Append(temp_kext_list_for_sorting, current_bundle_paths, todo) ==
    IF todo = <<>> THEN temp_kext_list_for_sorting
    ELSE LET kext_bundle_path == Head(todo)
             kext_name == SplitExtRoot(kext_bundle_path)
         IN  IF Str(kext_bundle_path) \notin current_bundle_paths /\ kext_name \in DOMAIN KEXT_INFO_DB
             THEN EnsureEssential_Append(Append(temp_kext_list_for_sorting, NewKextEntry(kext_name)),
                                         current_bundle_paths \cup {Str(kext_bundle_path)}, Tail(todo))
             ELSE EnsureEssential_Append(temp_kext_list_for_sorting, current_bundle_paths, Tail(todo))

RECURSIVE EnsureEssential(_, _, _)
\* The loop of line 284 over the bundle paths of todo: temp_kext_list_for_sorting afterwards.
EnsureEssential(temp_kext_list_for_sorting, current_bundle_paths, todo) ==
    IF todo = <<>> THEN temp_kext_list_for_sorting
    ELSE LET kext_bundle_path == Head(todo)
             kext_name == SplitExtRoot(kext_bundle_path)
         IN  IF Str(kext_bundle_path) \notin current_bundle_paths /\ kext_name \in DOMAIN KEXT_INFO_DB
             THEN EnsureEssential(<<NewKextEntry(kext_name)>> \o temp_kext_list_for_sorting,
                                  current_bundle_paths \cup {Str(kext_bundle_path)}, Tail(todo))
             ELSE EnsureEssential(temp_kext_list_for_sorting, current_bundle_paths, Tail(todo))

\* Lines 274-298 on the merged tree config: the tree afterwards.
InjectEssential(config) ==
    LET kernel == IF "Kernel" \in DOMAIN config THEN config["Kernel"].m ELSE EmptyMap
        kernel_add_list == IF "Add" \in DOMAIN kernel THEN kernel["Add"].s ELSE <<>>
        current_bundle_paths == {BundlePathOf(kernel_add_list[i]) : i \in 1..Len(kernel_add_list)}
        temp_kext_list_for_sorting ==
            EnsureEssential(kernel_add_list, current_bundle_paths, Reversed(essential_kexts_order))
    IN  Put(config, "Kernel", Dict(Put(kernel, "Add", List(temp_kext_list_for_sorting))))

\* The entries the injector prepended (line 291) to get from the tree before
\* to the tree after.
Injected(before, after) ==
    SubSeq(KernelAddEntries(after), 1,
           Len(KernelAddEntries(after)) - Len(KernelAddEntries(before)))

InjectEssentialKexts ==
    /\ pc = "inject"
    /\ \E config \in {InjectEssential(final_opencore_config)} :
          /\ final_opencore_config' = config
          /\ registry' = InstantiateAll(registry, InstantiatedNames(Injected(final_opencore_config, config)))
    /\ pc' = "done"
    /\ UNCHANGED <<merged, heap, probe_vars>>
    /\ UNCHANGED <<kext_vars, gen_call>>

NextPipeline ==
    \/ DetectCpu
    \/ DetectGpu
    \/ DetectAudio
    \/ DetectEthernet
    \/ InjectEssentialKexts

SpecPipeline == InitPipeline /\ [][NextPipeline]_vars

(***************************************************************************)
(* SpecGenerators: the four generators of skyscope_config_parts.py called  *)
(* on their own, as its __main__ block (lines 350-403) and the tests do.   *)
(***************************************************************************)

MaxDescriptors == 2    \* descriptors in the list handed to a generator

\* x.get('brand_raw', "") has no method lower(): the key holds None.
BrandNotStr(cpu_info_dict) ==
    IsDict(cpu_info_dict) /\ Get(cpu_info_dict.m, "brand_raw", Str("")).t # "str"

\* Values for cpu_info_dict: info dicts with and without brand_raw, and
\* values of other types.
CpuInfoMenu ==
    {Dict(Keys1("brand_raw", brand)) : brand \in CpuBrands}
    \cup {Dict(EmptyMap), None, Str("12th Gen Intel Core i7-12700K"), List(<<>>)}

\* What is no list of descriptors.
WrongTyped == {None, Str("8086"), Dict(EmptyMap)}

\* What is no descriptor, and a descriptor without any field.
Malformed == {Str("not a mapping"), None, Dict(EmptyMap)}

GpuInputs ==
    GpuMenu
    \cup {Descriptor(Str("VMware SVGA 3D"), Str("15AD"), Str("0405")),
          Dict(Keys1("VendorID", Str("1002")))}
    \cup Malformed

AudioInputs == AudioMenu \cup Malformed

EthernetInputs ==
    EthernetMenu
    \cup {EthernetDescriptor(Str("Realtek PCIe GbE Family Controller #2"), Str("Ethernet 6"),
                             Str("10ec"), Str("8111")),
          EthernetDescriptor(Str("Microsoft Network Adapter Multiplexor"), Str("Ethernet 7"),
                             None, None),
          Dict(Keys2("VendorID", Str("8086"), "DeviceID", Str("15B8")))}
    \cup Malformed

ListsOf(inputs) == {List(q) : q \in SeqsUpTo(inputs, MaxDescriptors)} \cup WrongTyped

\* The record of a call: raised tells that an exception left the generator,
\* ret is what it returned otherwise.
GeneratorCall(generator, args, raised, ret) ==
    [generator |-> generator, args |-> args, raised |-> raised, ret |-> ret]

InitGenerators ==
    /\ final_opencore_config = EmptyMap
    /\ merged = <<>>
    /\ heap = InitialHeap
    /\ pc = "generators"
    /\ NotProbed
    /\ NoGeneratorCall
    /\ RegistryLoaded
    /\ NoDownload
    /\ NoSearch
    /\ NoStaging

\* What a generator call leaves in gen_call and registry.  A generator keeps
\* nothing from one call to the next, so one call per run shows them all.
Returned(generator, args, parts) ==
    /\ gen_call' = GeneratorCall(generator, args, FALSE, parts)
    /\ pc' = "returned"
    /\ registry' = InstantiateAll(registry, InstantiatedNames(KernelAddEntries(parts)))

Raised(generator, args) ==
    /\ gen_call' = GeneratorCall(generator, args, TRUE, None)
    /\ pc' = "raised"
    /\ UNCHANGED registry

CallCpuGenerator ==
    /\ pc = "generators"
    /\ \E cpu_info_dict \in CpuInfoMenu, rom_bytes \in RomSeeds :
          IF BrandNotStr(cpu_info_dict)
          THEN Raised("cpu", <<cpu_info_dict>>)
          ELSE \E parts \in {generate_cpu_config_parts(cpu_info_dict, "iMac20,2", rom_bytes)} :
                  Returned("cpu", <<cpu_info_dict>>, parts)
    /\ UNCHANGED <<final_opencore_config, merged, heap, probe_vars, kext_vars>>

CallGpuGenerator ==
    /\ pc = "generators"
    /\ \E gpu_list \in ListsOf(GpuInputs), cpu_info_dict \in CpuInfoMenu :
          IF BrandNotStr(cpu_info_dict) \/ GpuRaises(gpu_list)
          THEN Raised("gpu", <<gpu_list, cpu_info_dict>>)
          ELSE \E parts \in {generate_gpu_config_parts(gpu_list, cpu_info_dict)} :
                  Returned("gpu", <<gpu_list, cpu_info_dict>>, parts)
    /\ UNCHANGED <<final_opencore_config, merged, heap, probe_vars, kext_vars>>

CallAudioGenerator ==
    /\ pc = "generators"
    /\ \E audio_devices_list \in ListsOf(AudioInputs) :
          IF AudioRaises(audio_devices_list)
          THEN Raised("audio", <<audio_devices_list>>)
          ELSE \E parts \in {generate_audio_config_parts(audio_devices_list)} :
                  Returned("audio", <<audio_devices_list>>, parts)
    /\ UNCHANGED <<final_opencore_config, merged, heap, probe_vars, kext_vars>>

CallEthernetGenerator ==
    /\ pc = "generators"
    /\ \E ethernet_devices_list \in ListsOf(EthernetInputs) :
          IF EthernetRaises(ethernet_devices_list)
          THEN Raised("ethernet", <<ethernet_devices_list>>)
          ELSE \E parts \in {generate_ethernet_config_parts(ethernet_devices_list)} :
                  Returned("ethernet", <<ethernet_devices_list>>, parts)
    /\ UNCHANGED <<final_opencore_config, merged, heap, probe_vars, kext_vars>>

NextGenerators ==
    \/ CallCpuGenerator
    \/ CallGpuGenerator
    \/ CallAudioGenerator
    \/ CallEthernetGenerator

SpecGenerators == InitGenerators /\ [][NextGenerators]_vars

(***************************************************************************)
(* SpecInject: the injector of skyscope_hwprobe.py (lines 273-298) on a    *)
(* merged tree whose Kernel/Add is any list without duplicate bundle paths. *)
(***************************************************************************)

MaxKexts == 3    \* entries of Kernel/Add before the injector runs

\* Registry names the merged list is drawn from.
KextMenu == {"Lilu", "VirtualSMC", "WhateverGreen", "AppleALC", "NVMeFix"}

NoDuplicates(seq) == \A i, j \in 1..Len(seq) : seq[i] = seq[j] => i = j

\* The merged trees: without Kernel section, or with a Kernel/Add list.
MergedTrees ==
    {EmptyMap}
    \cup {Keys1("Kernel", Dict(Keys1("Add", List([i \in 1..Len(names) |-> NewKextEntry(names[i])])))) :
            names \in {q \in SeqsUpTo(KextMenu, MaxKexts) : NoDuplicates(q)}}

InitInject ==
    /\ final_opencore_config \in MergedTrees
    /\ merged = <<>>
    /\ heap = InitialHeap
    /\ pc = "inject"
    /\ NotProbed
    /\ NoGeneratorCall
    /\ RegistryLoaded
    /\ NoDownload
    /\ NoSearch
    /\ NoStaging

NextInject == InjectEssentialKexts

SpecInject == InitInject /\ [][NextInject]_vars

(***************************************************************************)
(* skyscope_kext_manager.py: download_kext_zip                             *)
(***************************************************************************)

RECURSIVE ReplaceSlashes(_, _)
ReplaceSlashes(s, i) ==
    IF i > Len(s) THEN ""
    ELSE (IF CharAt(s, i) = "/" THEN "\\" ELSE CharAt(s, i)) \o ReplaceSlashes(s, i + 1)

\* os.path.normcase(s): the identity on POSIX; on Windows lower case, and
\* backslashes for slashes.
Normcase(s, folds) == IF folds THEN ReplaceSlashes(Lower(s), 1) ELSE s

\* fnmatch.translate, the scan for the end of a bracket expression opened at
\* pat[j]: the index of its closing bracket, 0 when there is none.
ClassEnd(pat, j) ==
    LET n == Len(pat)
        k1 == IF j + 1 <= n /\ CharAt(pat, j + 1) = "!" THEN j + 2 ELSE j + 1
        k2 == IF k1 <= n /\ CharAt(pat, k1) = "]" THEN k1 + 1 ELSE k1
        closing == {k \in k2..n : CharAt(pat, k) = "]"}
    IN  IF closing = {} THEN 0 ELSE CHOOSE k \in closing : \A m \in closing : k <= m

RECURSIVE InItems(_, _, _)
\* c is one of the characters and ranges of stuff, read from index k on.
InItems(c, stuff, k) ==
    IF k > Len(stuff) THEN FALSE
    ELSE IF k + 2 <= Len(stuff) /\ CharAt(stuff, k + 1) = "-"
         THEN \/ (Ord(CharAt(stuff, k)) <= Ord(c) /\ Ord(c) <= Ord(CharAt(stuff, k + 2)))
              \/ InItems(c, stuff, k + 3)
         ELSE c = CharAt(stuff, k) \/ InItems(c, stuff, k + 1)

\* c matches the bracket expression whose inside is stuff.
InClass(c, stuff) ==
    IF Len(stuff) >= 1 /\ CharAt(stuff, 1) = "!"
    THEN ~InItems(c, stuff, 2)
    ELSE InItems(c, stuff, 1)

RECURSIVE MatchFrom(_, _, _, _)
\* fnmatch.fnmatchcase on name from index i and pat from index j.
MatchFrom(name, i, pat, j) ==
    IF j > Len(pat) THEN i > Len(name)
    ELSE LET c == CharAt(pat, j) IN
         IF c = "*" THEN \E k \in i..(Len(name) + 1) : MatchFrom(name, k, pat, j + 1)
         ELSE IF c = "?" THEN i <= Len(name) /\ MatchFrom(name, i + 1, pat, j + 1)
         ELSE IF c = "[" /\ ClassEnd(pat, j) # 0
              THEN /\ i <= Len(name)
                   /\ InClass(CharAt(name, i), SubSeq(pat, j + 1, ClassEnd(pat, j) - 1))
                   /\ MatchFrom(name, i + 1, pat, ClassEnd(pat, j) + 1)
              ELSE /\ i <= Len(name)
                   /\ CharAt(name, i) = c
                   /\ MatchFrom(name, i + 1, pat, j + 1)

\* fnmatch.fnmatch(name, pat)
Fnmatch(name, pat, folds) == MatchFrom(Normcase(name, folds), 1, Normcase(pat, folds), 1)

RECURSIVE SelectAsset_Last(_, _, _, _)
\* The loop of lines 50-55 without its break: the last matching asset is kept.
SelectAsset_Last(asset_list, pattern, folds, i) ==
    IF i > Len(asset_list) THEN 0
    ELSE LET later == SelectAsset_Last(asset_list, pattern, folds, i + 1)
         IN  IF later # 0 THEN later
             ELSE IF Fnmatch(asset_list[i].name, pattern, folds) THEN i ELSE 0

RECURSIVE SelectAsset(_, _, _, _)
\* The loops of lines 50-55 and 59-64, from index i on: the index of the
\* asset at which the loop breaks, 0 when it runs to its end.
SelectAsset(asset_list, pattern, folds, i) ==
    IF i > Len(asset_list) THEN 0
    ELSE IF Fnmatch(asset_list[i].name, pattern, folds) THEN i
         ELSE SelectAsset(asset_list, pattern, folds, i + 1)

\* Lines 50-66: the index of the asset whose name and URL are kept, 0 when
\* asset_download_url stays None.
ChooseAsset(asset_list, pattern, fallback, folds) ==
    LET primary == SelectAsset(asset_list, pattern, folds, 1)
    IN  IF primary # 0 THEN primary
        ELSE IF fallback # None /\ fallback.v # ""
             THEN SelectAsset(asset_list, fallback.v, folds, 1)
             ELSE 0

\* os.path.join(dir_path, filename)
JoinPath(dir_path, filename, folds) == dir_path \o (IF folds THEN "\\" ELSE "/") \o filename

kext_download_dir == "downloads/kext_zips"

\* Line 88 with the test dropped: a file already held is never trusted.
CachedFileUsable_Never(files, filename) == FALSE

\* Line 88: os.path.exists(output_file_path) and os.path.getsize(output_file_path) > 0
CachedFileUsable(files, filename) == filename \in DOMAIN files /\ Len(files[filename]) > 0

\* Lines 103-105 and 109-111: the partial file is removed if it exists,
\* unless os.remove raises OSError, which is printed and dropped.
RemovePartial(files, filename, remove_ok) ==
    IF filename \in DOMAIN files /\ remove_ok THEN Del(files, filename) ELSE files

\* Lines 93-112: the files of the download directory afterwards and the
\* value returned.  body is the asset's chunks in order; stream tells how the
\* transfer goes: "complete", "refused" (the request or open() raises before
\* anything is written) or "broken" after stream.after chunks were written.
StreamToFile(files, filename, path, body, stream) ==
    IF stream.kind = "complete"
    THEN [files |-> Put(files, filename, body), ret |-> Str(path)]
    ELSE IF stream.kind = "refused"
         THEN [files |-> RemovePartial(files, filename, stream.remove_ok), ret |-> None]
         ELSE LET written == SubSeq(body, 1, IF stream.after < Len(body) THEN stream.after ELSE Len(body))
              IN  [files |-> RemovePartial(Put(files, filename, written), filename, stream.remove_ok),
                   ret |-> None]

\* Line 22, for the repo_path of the call.
api_url == "https://api.github.com/repos/{repo_path}/releases/latest"

\* Lines 28-36 with the request sent once more after a timeout.
FeedRequests_RetryOnTimeout(feed) ==
    IF feed = "timeout" THEN <<api_url, api_url>> ELSE <<api_url>>

\* Lines 28-36: the requests sent for the release feed, in order, for each
\* way the request of line 29 goes: that one request, each except clause
\* returning at once.
FeedRequests(feed) == <<api_url>>

\* download_kext_zip (lines 15-112): the download directory afterwards, the
\* value returned, the asset name chosen (None when none was), and the
\* numbers of feed requests (line 29) and asset requests (line 94) issued.
\* chosen is what lines 50-66
\* arrive at for asset_list: ChooseAsset(asset_list, asset_pattern,
\* fallback_asset_pattern, folds).
download_kext_zip(dir, asset_list, chosen, folds, feed, makedirs_ok, stream) ==
    LET nothing == [download_dir |-> dir, ret |-> None, filename |-> None,
                    asset_requests |-> 0, stream_failed |-> FALSE,
                    feed_requests |-> Len(FeedRequests(feed))]
    IN  IF feed # "ok" THEN nothing
        ELSE IF asset_list = <<>> THEN nothing
        ELSE IF chosen = 0 THEN nothing
        ELSE LET filename == asset_list[chosen].name
                 output_file_path == JoinPath(kext_download_dir, filename, folds)
                 chose == [nothing EXCEPT !.filename = Str(filename)]
             IN  IF ~dir.exists /\ ~makedirs_ok THEN chose
                 ELSE IF CachedFileUsable(dir.files, filename)
                      THEN [chose EXCEPT !.download_dir = [exists |-> TRUE, files |-> dir.files],
                                         !.ret = Str(output_file_path)]
                      ELSE LET r == StreamToFile(dir.files, filename, output_file_path,
                                                 asset_list[chosen].body, stream)
                           IN  [download_dir |-> [exists |-> TRUE, files |-> r.files],
                                ret |-> r.ret, filename |-> Str(filename),
                                asset_requests |-> 1, stream_failed |-> r.ret = None,
                                feed_requests |-> nothing.feed_requests]

(***************************************************************************)
(* SpecDownload: download_kext_zip called again and again for one kext,    *)
(* against one release feed and one download directory                     *)
(***************************************************************************)

MaxCalls == 2      \* calls of download_kext_zip in one run
MaxChunks == 2     \* chunks in the body of a release asset

\* An element of release_data["assets"]; a release asset is never empty.
Asset(name, chunks) ==
    [name |-> name,
     browser_download_url |-> "https://github.com/releases/download/" \o name,
     body |-> [i \in 1..chunks |-> <<name, i>>]]

FeedMenu ==
    {<<>>,
     <<Asset("Lilu-1.6.7-DEBUG.zip", 1), Asset("Lilu-1.6.7-RELEASE.zip", MaxChunks),
       Asset("Lilu-1.6.6-RELEASE.zip", 1)>>,
     <<Asset("notes.txt", 1), Asset("RTL8111-V2.4.2.zip", MaxChunks), Asset("rtl8111-release.zip", 1)>>,
     <<Asset("README.md", MaxChunks)>>}

PatternMenu == {"*RELEASE.zip", "*-?.?.[0-9]-RELEASE.zip", "*[!G].zip"}

FallbackMenu == {None, Str("*.zip")}

FeedOutcomes == {"ok", "timeout", "request_error", "not_200", "bad_json"}

StreamOutcomes ==
    {[kind |-> "complete", after |-> 0, remove_ok |-> TRUE]}
    \cup {[kind |-> "refused", after |-> 0, remove_ok |-> ok] : ok \in BOOLEAN}
    \cup {[kind |-> "broken", after |-> k, remove_ok |-> ok] : k \in 0..(MaxChunks - 1), ok \in BOOLEAN}

\* The script's accumulator is not in use.
NoSynthesis ==
    /\ final_opencore_config = EmptyMap
    /\ merged = <<>>
    /\ heap = InitialHeap
    /\ NotProbed
    /\ NoGeneratorCall
    /\ RegistryLoaded

InitDownload ==
    /\ pc = "download"
    /\ assets \in FeedMenu
    /\ asset_pattern \in PatternMenu
    /\ fallback_asset_pattern \in FallbackMenu
    /\ normcase_folds \in BOOLEAN
    /\ download_dir \in {[exists |-> e, files |-> EmptyMap] : e \in BOOLEAN}
    /\ calls = <<>>
    /\ NoSearch
    /\ NoStaging
    /\ NoSynthesis

\* One call download_kext_zip(kext_name, repo_path, asset_pattern, download_dir,
\* fallback_asset_pattern), with what the network and the file system do during it.
DownloadKextZip ==
    /\ pc = "download"
    /\ Len(calls) < MaxCalls
    /\ \E chosen \in {ChooseAsset(assets, asset_pattern, fallback_asset_pattern, normcase_folds)},
          feed \in FeedOutcomes, makedirs_ok \in BOOLEAN, stream \in StreamOutcomes :
          LET r == download_kext_zip(download_dir, assets, chosen, normcase_folds,
                                     feed, makedirs_ok, stream)
          IN  /\ download_dir' = r.download_dir
              /\ calls' = Append(calls, [feed |-> feed, pre |-> download_dir, post |-> r.download_dir,
                                         ret |-> r.ret, filename |-> r.filename,
                                         asset_requests |-> r.asset_requests,
                                         feed_requests |-> r.feed_requests,
                                         stream_failed |-> r.stream_failed])
    /\ UNCHANGED <<assets, asset_pattern, fallback_asset_pattern, normcase_folds, pc>>
    /\ UNCHANGED <<synthesis_vars, find_vars, stage_vars>>

NextDownload == DownloadKextZip

SpecDownload == InitDownload /\ [][NextDownload]_vars

(***************************************************************************)
(* skyscope_kext_manager.py: find_kext_in_dir                              *)
(***************************************************************************)

\* float('inf') of line 121: larger than the depth of any entry
inf == 1000

\* An entry below the search root: its path relative to the root, as the
\* sequence of its parts, and whether it is a directory.
Entry(parts, is_dir) == [parts |-> parts, is_dir |-> is_dir]

\* A pathlib.Path below the search root
Path(parts) == [t |-> "path", parts |-> parts]

\* item_path.name
NameOf(item_path) == item_path.parts[Len(item_path.parts)]

\* Lines 129 and 135: depth < min_depth
IsShallower_Always(depth, best) == TRUE

IsShallower(depth, best) == depth < best

\* Lines 125-137, one turn of the loop for item_path: min_depth and
\* found_path afterwards.
VisitItem(item_path, pattern, plugin, best, found) ==
    LET keep == [min_depth |-> best, found_path |-> found]
        depth == Len(item_path.parts)
        better == IF IsShallower(depth, best)
                  THEN [min_depth |-> depth, found_path |-> Path(item_path.parts)]
                  ELSE keep
    IN  IF item_path.is_dir /\ EndsWith(NameOf(item_path), ".kext")
        THEN IF plugin
             THEN IF NameOf(item_path) = pattern THEN better ELSE keep
             ELSE IF StartsWith(NameOf(item_path), pattern) THEN better ELSE keep
        ELSE keep

(***************************************************************************)
(* SpecFind: one call of find_kext_in_dir over an extracted archive        *)
(***************************************************************************)

RECURSIVE WithParents(_)
\* The directories leading to parts, and parts itself as a directory or file.
WithParents(e) ==
    IF Len(e.parts) <= 1 THEN {e}
    ELSE {e} \cup WithParents(Entry(SubSeq(e.parts, 1, Len(e.parts) - 1), TRUE))

TreeOf(entries) == UNION {WithParents(e) : e \in entries}

\* The tree of the staging example: Top/Foo.kext and the duplicate nested in it.
ExampleTree ==
    TreeOf({Entry(<<"Top", "Foo.kext", "Contents", "PlugIns", "Foo.kext">>, TRUE),
            Entry(<<"Top", "Foo.kext", "Contents", "Info.plist">>, FALSE)})

TreeMenu ==
    {ExampleTree,
     TreeOf({Entry(<<"Foo.kext">>, TRUE), Entry(<<"FooBar.kext">>, TRUE),
             Entry(<<"Foo.kext.dSYM">>, TRUE), Entry(<<"Docs", "Foo.kext">>, FALSE)}),
     TreeOf({Entry(<<"Release", "Kexts", "Foo.kext">>, TRUE), Entry(<<"Debug", "Foo.kext">>, TRUE),
             Entry(<<"Debug", "FooBar.kext">>, TRUE)}),
     TreeOf({Entry(<<"VirtualSMC.kext", "Contents", "PlugIns", "Foo.kext">>, TRUE),
             Entry(<<"Kexts", "Foo.kext">>, TRUE)}),
     TreeOf({Entry(<<"README.md">>, FALSE), Entry(<<"Tools", "foo.kext">>, TRUE)}),
     {}}

NameMenu == {"Foo", "FooBar", "Foo.kext", ""}

\* find_kext_in_dir(search_dir, kext_name_pattern, is_plugin_search) at line 124
InitFind ==
    /\ pc = "rglob"
    /\ search_dir \in TreeMenu
    /\ kext_name_pattern \in NameMenu
    /\ is_plugin_search \in BOOLEAN
    /\ pending = search_dir
    /\ min_depth = inf
    /\ found_path = None
    /\ NoDownload
    /\ NoStaging
    /\ NoSynthesis

\* One turn of the loop of line 124.  rglob yields the entries of a
\* directory in the order the file system lists them, which is any order,
\* and an entry only after the directory that holds it.
RglobNext ==
    /\ pc = "rglob"
    /\ \E item_path \in pending :
          /\ \A other \in pending :
                ~(/\ Len(other.parts) < Len(item_path.parts)
                  /\ SubSeq(item_path.parts, 1, Len(other.parts)) = other.parts)
          /\ LET r == VisitItem(item_path, kext_name_pattern, is_plugin_search, min_depth, found_path)
             IN  /\ min_depth' = r.min_depth
                 /\ found_path' = r.found_path
          /\ pending' = pending \ {item_path}
    /\ UNCHANGED <<pc, search_dir, kext_name_pattern, is_plugin_search>>
    /\ UNCHANGED <<synthesis_vars, download_vars, stage_vars>>

\* Line 138: return found_path
ReturnFound ==
    /\ pc = "rglob"
    /\ pending = {}
    /\ pc' = "returned"
    /\ UNCHANGED <<search_dir, kext_name_pattern, is_plugin_search, pending, min_depth, found_path>>
    /\ UNCHANGED <<synthesis_vars, download_vars, stage_vars>>

NextFind ==
    \/ RglobNext
    \/ ReturnFound

SpecFind == InitFind /\ [][NextFind]_vars

(***************************************************************************)
(* skyscope_kext_manager.py: stage_kext                                    *)
(***************************************************************************)

RECURSIVE FindFrom(_, _, _, _, _)
\* The loop of line 124 over the entries of todo, in every order rglob may
\* yield them: the values found_path may hold at line 138.
FindFrom(todo, pattern, plugin, best, found) ==
    IF todo = {} THEN {found}
    ELSE UNION {LET r == VisitItem(item_path, pattern, plugin, best, found)
                IN  FindFrom(todo \ {item_path}, pattern, plugin, r.min_depth, r.found_path) :
                item_path \in {e \in todo :
                                 \A other \in todo :
                                    ~(/\ Len(other.parts) < Len(e.parts)
                                      /\ SubSeq(e.parts, 1, Len(other.parts)) = other.parts)}}

\* find_kext_in_dir(search, pattern, plugin): the values it may return
find_kext_in_dir(search, pattern, plugin) == FindFrom(search, pattern, plugin, inf, None)

\* What a directory of OC/Kexts holds: the bundle it was copied from, and
\* whether all of that bundle is there.
Bundle(from, whole) == [from |-> from, whole |-> whole]

\* str(kexts_staging_path / name), with base_staging_dir as in the docstring
TargetPath(name) == "Skyscope_EFI_Staging/OC/Kexts/" \o name

\* Lines 191-194 and 213-216: the existing target is removed with
\* shutil.rmtree, then the bundle found is copied with shutil.copytree.
\* rm and cp tell how the two go: "ok", "fails" (raises having changed
\* nothing) or "fails_midway" (raises with part of the work done).
ReplaceBundle(staging, target, source, rm, cp) ==
    LET existed == target \in DOMAIN staging
        removed == IF existed THEN Del(staging, target) ELSE staging
    IN  IF existed /\ rm = "fails" THEN [staging |-> staging, ok |-> FALSE]
        ELSE IF existed /\ rm = "fails_midway"
             THEN [staging |-> Put(staging, target, Bundle(staging[target].from, FALSE)), ok |-> FALSE]
        ELSE IF cp = "ok" THEN [staging |-> Put(removed, target, Bundle(source, TRUE)), ok |-> TRUE]
        ELSE IF cp = "fails_midway"
             THEN [staging |-> Put(removed, target, Bundle(source, FALSE)), ok |-> FALSE]
        ELSE [staging |-> removed, ok |-> FALSE]

\* An item staging that records the target before the copy is tried.
StageItem_AppendFirst(staging, paths, target, found, rm, cp) ==
    IF found = None THEN [staging |-> staging, paths |-> paths]
    ELSE [staging |-> ReplaceBundle(staging, target, found.parts, rm, cp).staging,
          paths |-> Append(paths, TargetPath(target))]

\* Lines 188-200 and 210-222, for one item: OC/Kexts and staged_kext_paths
\* afterwards.  found is what find_kext_in_dir returned for the item.
StageItem(staging, paths, target, found, rm, cp) ==
    IF found = None THEN [staging |-> staging, paths |-> paths]
    ELSE LET r == ReplaceBundle(staging, target, found.parts, rm, cp)
         IN  [staging |-> r.staging,
              paths |-> IF r.ok THEN Append(paths, TargetPath(target)) ELSE paths]

(***************************************************************************)
(* SpecStage: one call of stage_kext                                       *)
(***************************************************************************)

MaxPlugins == 2    \* plugins named by kext_info

ArchiveMenu ==
    {TreeOf({Entry(<<"Kexts", "VirtualSMC.kext">>, TRUE), Entry(<<"Kexts", "SMCProcessor.kext">>, TRUE)}),
     TreeOf({Entry(<<"VirtualSMC.kext", "Contents", "PlugIns", "SMCProcessor.kext">>, TRUE)}),
     TreeOf({Entry(<<"VirtualSMC.kext">>, TRUE), Entry(<<"VirtualSMCDebug.kext">>, TRUE),
             Entry(<<"SMCSuperIO.kext">>, TRUE), Entry(<<"SMCProcessor.kext">>, FALSE)}),
     TreeOf({Entry(<<"README.md">>, FALSE), Entry(<<"SMCSuperIO.kext">>, TRUE)})}

PluginMenu == {"SMCProcessor.kext", "SMCSuperIO.kext"}

\* What OC/Kexts holds under name from an earlier staging
Previous(name) == Bundle(<<"previous", name>>, TRUE)

StagingMenu ==
    {EmptyMap,
     Keys1("VirtualSMC.kext", Previous("VirtualSMC.kext")),
     Keys1("SMCProcessor.kext", Previous("SMCProcessor.kext")),
     Keys2("VirtualSMC.kext", Previous("VirtualSMC.kext"),
           "SMCProcessor.kext", Previous("SMCProcessor.kext"))}

RmOutcomes == {"ok", "fails", "fails_midway"}

CpOutcomes == {"ok", "fails", "fails_midway"}

InitStage ==
    /\ pc = "stage_call"
    /\ kext_info \in {[name |-> "VirtualSMC", generic_kext_name |-> g, plugins |-> pl] :
                        g \in {Str("VirtualSMC.kext"), None},
                        pl \in SeqsUpTo(PluginMenu, MaxPlugins)}
    /\ tmpdir \in ArchiveMenu
    /\ kexts_staging \in StagingMenu
    /\ staging_before = kexts_staging
    /\ staged_kext_paths = <<>>
    /\ stage_log = <<>>
    /\ stagers = <<>>
    /\ NoDownload
    /\ NoSearch
    /\ NoSynthesis

\* Lines 154-182: the archive is there, OC/Kexts is made and the archive is
\* extracted to tmpdir; or one of the three fails and [] is returned.
StageExtract ==
    /\ pc = "stage_call"
    /\ \E outcome \in {"extracted", "no_zip", "makedirs_fails", "bad_zip"} :
          pc' = IF outcome = "extracted" THEN "stage_primary" ELSE "stage_refused"
    /\ UNCHANGED <<stage_vars, synthesis_vars, download_vars, find_vars>>

\* One item is handled: the search for it, and the replacement of its target.
\* The item's target, what the search returned, whether the target existed
\* and how rmtree and copytree went are logged.
HandleItem(target, pattern, plugin) ==
    \E found \in find_kext_in_dir(tmpdir, pattern, plugin) :
    \E rm \in IF found # None /\ target \in DOMAIN kexts_staging THEN RmOutcomes ELSE {"none"} :
    \E cp \in IF found # None /\ rm \in {"none", "ok"} THEN CpOutcomes ELSE {"none"} :
       LET r == StageItem(kexts_staging, staged_kext_paths, target, found, rm, cp)
       IN  /\ kexts_staging' = r.staging
           /\ staged_kext_paths' = r.paths
           /\ stage_log' = Append(stage_log, [target |-> Str(target), found |-> found,
                                              plugin |-> plugin, rm |-> rm, cp |-> cp])

\* Lines 184-202: the primary kext
StagePrimary ==
    /\ pc = "stage_primary"
    /\ IF kext_info.generic_kext_name # None
       THEN HandleItem(kext_info.generic_kext_name.v, kext_info.name, FALSE)
       ELSE /\ stage_log' = Append(stage_log, [target |-> None, found |-> None,
                                               plugin |-> FALSE, rm |-> "none", cp |-> "none"])
            /\ UNCHANGED <<kexts_staging, staged_kext_paths>>
    /\ pc' = "stage_plugins"
    /\ UNCHANGED <<kext_info, tmpdir, staging_before, stagers>>
    /\ UNCHANGED <<synthesis_vars, download_vars, find_vars>>

\* Lines 208-222: the next plugin of plugins_to_stage
StagePlugin ==
    /\ pc = "stage_plugins"
    /\ Len(stage_log) <= Len(kext_info.plugins)
    /\ HandleItem(kext_info.plugins[Len(stage_log)], kext_info.plugins[Len(stage_log)], TRUE)
    /\ UNCHANGED <<pc, kext_info, tmpdir, staging_before, stagers>>
    /\ UNCHANGED <<synthesis_vars, download_vars, find_vars>>

\* Line 224: return staged_kext_paths
StageReturn ==
    /\ pc = "stage_plugins"
    /\ Len(stage_log) > Len(kext_info.plugins)
    /\ pc' = "stage_returned"
    /\ UNCHANGED <<stage_vars, synthesis_vars, download_vars, find_vars>>

NextStage ==
    \/ StageExtract
    \/ StagePrimary
    \/ StagePlugin
    \/ StageReturn

SpecStage == InitStage /\ [][NextStage]_vars

(***************************************************************************)
(* SpecStagePair: two calls of stage_kext under way at once on one staging  *)
(* root, as two threads or two processes would run them.  Each call has its *)
(* own archive, temporary directory and staged_kext_paths; OC/Kexts is      *)
(* shared.  A step is one access to OC/Kexts together with the call's own   *)
(* work that leads up to it: the test of line 192 / 214 (with the search    *)
(* before it), shutil.rmtree, shutil.copytree (with the append after it).   *)
(***************************************************************************)

Callers == {1, 2}

\* The items a call handles, in order: the primary kext, then the plugins.
ItemsOf(info) ==
    <<[target |-> info.generic_kext_name.v, pattern |-> info.name, plugin |-> FALSE]>>
    \o [i \in 1..Len(info.plugins) |->
          [target |-> info.plugins[i], pattern |-> info.plugins[i], plugin |-> TRUE]]

\* The archive of a kext that brings name.kext and the plugins of PluginMenu.
ArchiveOf(name) ==
    TreeOf({Entry(<<name \o ".kext">>, TRUE)} \cup {Entry(<<"PlugIns", p>>, TRUE) : p \in PluginMenu})

\* The first call stages VirtualSMC with some plugins; the second stages
\* Lilu, or Lilu with a plugin of VirtualSMC's, or VirtualSMC once more.
PairMenu ==
    {<<[name |-> "VirtualSMC", generic_kext_name |-> Str("VirtualSMC.kext"), plugins |-> first],
       second>> :
        first \in SeqsUpTo(PluginMenu, MaxPlugins),
        second \in {[name |-> "Lilu", generic_kext_name |-> Str("Lilu.kext"), plugins |-> <<>>],
                    [name |-> "Lilu", generic_kext_name |-> Str("Lilu.kext"),
                     plugins |-> <<"SMCProcessor.kext">>],
                    [name |-> "VirtualSMC", generic_kext_name |-> Str("VirtualSMC.kext"),
                     plugins |-> <<>>]}}

PairStagingMenu ==
    {EmptyMap,
     Keys2("VirtualSMC.kext", Previous("VirtualSMC.kext"), "Lilu.kext", Previous("Lilu.kext"))}

\* A call before its first step.
Stager(info) ==
    [kext_info |-> info, tmpdir |-> ArchiveOf(info.name), at |-> "test", item |-> 1,
     found |-> None, removed |-> FALSE, staged_kext_paths |-> <<>>, log |-> <<>>,
     overlapped |-> FALSE]

InitStagePair ==
    /\ pc = "stage_pair"
    /\ \E pair \in PairMenu : stagers = [i \in Callers |-> Stager(pair[i])]
    /\ kexts_staging \in PairStagingMenu
    /\ staging_before = kexts_staging
    /\ kext_info = None
    /\ tmpdir = {}
    /\ staged_kext_paths = <<>>
    /\ stage_log = <<>>
    /\ NoDownload
    /\ NoSearch
    /\ NoSynthesis

\* A call that has taken a step and has not returned.
UnderWay(stager) == stager.at # "returned" /\ (stager.item > 1 \/ stager.at # "test")

\* Call i has taken a step: it is noted whether another call was under way.
Stepped(i, all) ==
    [all EXCEPT ![i].overlapped = @ \/ \E j \in Callers \ {i} : UnderWay(stagers[j])]

\* staged_kext_paths were one list shared by the calls: the append of line
\* 195 / 217 is seen by every call.
AppendPath_SharedList(all, i, path) ==
    [j \in DOMAIN all |-> [all[j] EXCEPT !.staged_kext_paths = Append(@, path)]]

\* Line 195 / 217: staged_kext_paths.append(...), in call i's own list.
AppendPath(all, i, path) == [all EXCEPT ![i].staged_kext_paths = Append(@, path)]

\* Call i is through with its item: what happened is logged, and the call
\* goes on to its next item or returns.
ItemDone(all, i, found, rm, cp) ==
    LET items == ItemsOf(all[i].kext_info)
        done == [all EXCEPT
                   ![i].log = Append(@, [target |-> Str(items[all[i].item].target), found |-> found,
                                         plugin |-> items[all[i].item].plugin, rm |-> rm, cp |-> cp]),
                   ![i].found = None,
                   ![i].removed = FALSE]
    IN  IF all[i].item < Len(items)
        THEN [done EXCEPT ![i].item = @ + 1, ![i].at = "test"]
        ELSE [done EXCEPT ![i].at = "returned"]

\* Lines 186-192 / 210-214: call i searches its archive for its item and,
\* having found it, tests whether the target exists.
TestTarget(i) ==
    /\ pc = "stage_pair"
    /\ stagers[i].at = "test"
    /\ LET current == ItemsOf(stagers[i].kext_info)[stagers[i].item]
       IN  \E found \in find_kext_in_dir(stagers[i].tmpdir, current.pattern, current.plugin) :
              stagers' = Stepped(i,
                 IF found = None THEN ItemDone(stagers, i, None, "none", "none")
                 ELSE [stagers EXCEPT
                         ![i].found = found,
                         ![i].at = IF current.target \in DOMAIN kexts_staging
                                   THEN "rmtree" ELSE "copytree"])
    /\ UNCHANGED <<pc, kext_info, tmpdir, kexts_staging, staging_before, staged_kext_paths, stage_log>>
    /\ UNCHANGED <<synthesis_vars, download_vars, find_vars>>

\* Line 193 / 215: shutil.rmtree(target).  It raises when the target is not
\* there any more, or as rm tells; the except clause ends the item.
RemoveTarget(i) ==
    /\ pc = "stage_pair"
    /\ stagers[i].at = "rmtree"
    /\ LET target == ItemsOf(stagers[i].kext_info)[stagers[i].item].target
       IN  IF target \notin DOMAIN kexts_staging
           THEN /\ stagers' = Stepped(i, ItemDone(stagers, i, stagers[i].found, "fails", "none"))
                /\ UNCHANGED kexts_staging
           ELSE \E rm \in RmOutcomes :
                   /\ kexts_staging' =
                         CASE rm = "ok" -> Del(kexts_staging, target)
                           [] rm = "fails" -> kexts_staging
                           [] rm = "fails_midway" ->
                                Put(kexts_staging, target, Bundle(kexts_staging[target].from, FALSE))
                   /\ stagers' = Stepped(i,
                         IF rm = "ok"
                         THEN [stagers EXCEPT ![i].at = "copytree", ![i].removed = TRUE]
                         ELSE ItemDone(stagers, i, stagers[i].found, rm, "none"))
    /\ UNCHANGED <<pc, kext_info, tmpdir, staging_before, staged_kext_paths, stage_log>>
    /\ UNCHANGED <<synthesis_vars, download_vars, find_vars>>

\* Lines 194-195 / 216-217: shutil.copytree(found, target), and the append
\* when it went through.  It raises FileExistsError when the target is
\* there, or as cp tells; the except clause ends the item.
CopyBundle(i) ==
    /\ pc = "stage_pair"
    /\ stagers[i].at = "copytree"
    /\ LET target == ItemsOf(stagers[i].kext_info)[stagers[i].item].target
           found == stagers[i].found
           rm == IF stagers[i].removed THEN "ok" ELSE "none"
       IN  IF target \in DOMAIN kexts_staging
           THEN /\ stagers' = Stepped(i, ItemDone(stagers, i, found, rm, "fails"))
                /\ UNCHANGED kexts_staging
           ELSE \E cp \in CpOutcomes :
                   /\ kexts_staging' =
                         CASE cp = "ok" -> Put(kexts_staging, target, Bundle(found.parts, TRUE))
                           [] cp = "fails" -> kexts_staging
                           [] cp = "fails_midway" ->
                                Put(kexts_staging, target, Bundle(found.parts, FALSE))
                   /\ stagers' = Stepped(i,
                         ItemDone(IF cp = "ok" THEN AppendPath(stagers, i, TargetPath(target))
                                  ELSE stagers,
                                  i, found, rm, cp))
    /\ UNCHANGED <<pc, kext_info, tmpdir, staging_before, staged_kext_paths, stage_log>>
    /\ UNCHANGED <<synthesis_vars, download_vars, find_vars>>

NextStagePair ==
    \E i \in Callers :
        \/ TestTarget(i)
        \/ RemoveTarget(i)
        \/ CopyBundle(i)

SpecStagePair == InitStagePair /\ [][NextStagePair]_vars

(***************************************************************************)
(* Properties of the merge engine                                          *)
(***************************************************************************)

\* cfg holds the boot-args container: cfg["NVRAM"]["Add"][guid_key]
HasContainer(cfg) ==
    /\ "NVRAM" \in DOMAIN cfg
    /\ HasKey(cfg["NVRAM"], "Add")
    /\ HasKey(cfg["NVRAM"].m["Add"], guid_key)

ContainerOf(cfg) == cfg["NVRAM"].m["Add"].m[guid_key].m

\* The boot-args leaf of cfg, None when the key is absent.
BootArgsOf(cfg) ==
    IF HasContainer(cfg) THEN Get(ContainerOf(cfg), "boot-args", None) ELSE None

\* cfg["Kernel"]["Add"] as a sequence, empty when absent.
KernelAddOf(cfg) ==
    IF "Kernel" \in DOMAIN cfg /\ HasKey(cfg["Kernel"], "Add")
    THEN cfg["Kernel"].m["Add"].s
    ELSE <<>>

IndicesOf(list, bundle_path) ==
    {i \in 1..Len(list) : BundlePathOf(list[i]) = Str(bundle_path)}

RECURSIVE MergeAll(_, _)
\* The accumulator after merging the trees of parts, in order, into main_dict.
MergeAll(main_dict, parts) ==
    IF parts = <<>> THEN main_dict
    ELSE MergeAll(merge_config_dicts(main_dict, Head(parts)), Tail(parts))

\* The distinct tokens of the boot-args strings of all trees of parts.
AllTokens(parts) ==
    UNION {Range(Split(BootArgsOf(parts[i]).v)) :
             i \in {j \in 1..Len(parts) : BootArgsOf(parts[j]) # None}}

Containers(parts) == {i \in 1..Len(parts) : HasContainer(parts[i])}

\* C1 (as claimed): two trees that each hold a Kernel/Add entry X.kext, merged
\* into the empty accumulator, leave exactly one X.kext entry in Kernel/Add:
\* the first tree's entry, at the index it had there.
C1_DedupByBundlePath ==
    (/\ Len(merged) = 2
     /\ IndicesOf(KernelAddOf(merged[1]), "X.kext") # {}
     /\ IndicesOf(KernelAddOf(merged[2]), "X.kext") # {})
    => LET first == KernelAddOf(merged[1])
           final == KernelAddOf(final_opencore_config)
       IN  /\ Cardinality(IndicesOf(final, "X.kext")) = 1
           /\ \A i \in IndicesOf(first, "X.kext") :
                 i \in IndicesOf(final, "X.kext") /\ final[i] = first[i]

\* C3: whatever the order in which the trees merged so far are merged into an
\* empty accumulator, the final boot-args leaf (or its absence) is the same;
\* and "a c" merged before "b a" gives "a b c".
C3_BootArgsOrderIndependent ==
    /\ \A p \in Permutations(1..Len(merged)) :
          BootArgsOf(MergeAll(EmptyMap, [i \in 1..Len(merged) |-> merged[p[i]]]))
            = BootArgsOf(final_opencore_config)
    /\ merged = <<NvramTree(Keys1("boot-args", Str("a c"))),
                  NvramTree(Keys1("boot-args", Str("b a")))>>
          => BootArgsOf(final_opencore_config) = Str("a b c")

\* C3 witness: the example of the claim has been merged, and the result
\* differs from both inputs.
C3_Witness ==
    /\ merged = <<NvramTree(Keys1("boot-args", Str("a c"))),
                  NvramTree(Keys1("boot-args", Str("b a")))>>
    /\ BootArgsOf(final_opencore_config) = Str("a b c")

\* C4 (as claimed): after one merge or more, a boot-args leaf that is present
\* is the sorted, single-space-joined list of the distinct tokens of all
\* merged trees.
C4_FinalFormAlways ==
    (Len(merged) >= 1 /\ BootArgsOf(final_opencore_config) # None)
    => BootArgsOf(final_opencore_config) = Str(Join(" ", SortedStrings(AllTokens(merged))))

\* C4 (amended): the same, once two or more of the merged trees hold the
\* boot-args container; a single tree's container is stored as it came.
C4_FinalFormAfterUnion ==
    /\ (Cardinality(Containers(merged)) >= 2 /\ BootArgsOf(final_opencore_config) # None)
         => BootArgsOf(final_opencore_config) = Str(Join(" ", SortedStrings(AllTokens(merged))))
    /\ \A i \in Containers(merged) :
         Containers(merged) = {i} => BootArgsOf(final_opencore_config) = BootArgsOf(merged[i])

\* C4 witness: two trees with unsorted, repeated tokens were merged and the
\* leaf is their sorted union.
C4_Witness ==
    /\ Len(merged) = 2
    /\ BootArgsOf(merged[1]) = Str("b ab")
    /\ BootArgsOf(merged[2]) = Str("b a")
    /\ BootArgsOf(final_opencore_config) = Str("a ab b")

(***************************************************************************)
(* Properties of the script                                                *)
(***************************************************************************)

BundlePathsOf(cfg) == {BundlePathOf(KernelAddOf(cfg)[i]).v : i \in 1..Len(KernelAddOf(cfg))}

\* The Path fields of cfg["ACPI"]["Add"]
AcpiPathsOf(cfg) ==
    IF "ACPI" \in DOMAIN cfg /\ HasKey(cfg["ACPI"], "Add")
    THEN {cfg["ACPI"].m["Add"].s[i].m["Path"].v : i \in 1..Len(cfg["ACPI"].m["Add"].s)}
    ELSE {}

\* cfg["DeviceProperties"]["Add"], a map from PCI path to properties
DevicePropertiesOf(cfg) ==
    IF "DeviceProperties" \in DOMAIN cfg /\ HasKey(cfg["DeviceProperties"], "Add")
    THEN cfg["DeviceProperties"].m["Add"].m
    ELSE EmptyMap

\* The probes returned the facts of the end-to-end example.
C2_ExampleFacts ==
    /\ "raw_info" \in DOMAIN cpu_details_result
    /\ Get(cpu_details_result["raw_info"].m, "brand_raw", None)
         = Str("12th Gen Intel(R) Core(TM) i7-12700K")
    /\ gpu_details_list
         = List(<<Descriptor(Str("Intel(R) UHD Graphics 770"), Str("8086"), Str("4680"))>>)
    /\ audio_details_list = List(<<>>)
    /\ ethernet_details_list = List(<<>>)

\* C2 (as claimed): for a 12th-generation i7-12700K brand string, one Intel
\* 8086:4680 GPU and no audio or Ethernet device, the finished tree holds the
\* four ACPI patches, SMCProcessor and SMCSuperIO, exactly one device-property
\* entry, carrying platform-id 0B00A000, boot-args with the token
\* agdpmod=pikera, and no audio or Ethernet component.
C2_EndToEnd ==
    (pc = "done" /\ C2_ExampleFacts)
    => LET cfg == final_opencore_config
           props == DevicePropertiesOf(cfg)
       IN  /\ AcpiPathsOf(cfg) = {"SSDT-PLUG-ALT.aml", "SSDT-EC-USBX-DESKTOP.aml",
                                  "SSDT-AWAC-DISABLE.aml", "SSDT-RHUB.aml"}
           /\ {"SMCProcessor.kext", "SMCSuperIO.kext"} \subseteq BundlePathsOf(cfg)
           /\ Cardinality(DOMAIN props) = 1
           /\ \A path \in DOMAIN props :
                 Get(props[path].m, "AAPL,ig-platform-id", None) = Bytes(<<11, 0, 160, 0>>)
           /\ BootArgsOf(cfg) # None
           /\ "agdpmod=pikera" \in Range(Split(BootArgsOf(cfg).v))
           /\ BundlePathsOf(cfg) \cap {"AppleALC.kext", "RealtekRTL8111.kext",
                                       "LucyRTL8125Ethernet.kext", "IntelMausi.kext"} = {}

\* C5 (as claimed): the boot-args key of the accumulator is absent or holds a
\* non-empty string, after every merge of the script.
C5_NoEmptyBootArgs ==
    BootArgsOf(final_opencore_config) = None \/ BootArgsOf(final_opencore_config).v # ""

\* C6: once the injector has run, Kernel/Add holds Lilu.kext and
\* VirtualSMC.kext, and every Lilu.kext entry comes before every
\* VirtualSMC.kext entry.
C6_LiluBeforeVirtualSMC ==
    pc = "done"
    => LET add == KernelAddOf(final_opencore_config)
       IN  /\ IndicesOf(add, "Lilu.kext") # {}
           /\ IndicesOf(add, "VirtualSMC.kext") # {}
           /\ \A i \in IndicesOf(add, "Lilu.kext"), j \in IndicesOf(add, "VirtualSMC.kext") : i < j

\* C6 witness: the injector has run after a failed CPU probe and after other
\* components were merged.
C6_Witness ==
    /\ pc = "done"
    /\ "error" \in DOMAIN cpu_details_result
    /\ {"AppleALC.kext", "IntelMausi.kext"} \subseteq BundlePathsOf(final_opencore_config)
    /\ IndicesOf(KernelAddOf(final_opencore_config), "Lilu.kext") = {1}
    /\ IndicesOf(KernelAddOf(final_opencore_config), "VirtualSMC.kext") = {2}

(***************************************************************************)
(* Properties of the kext acquisition pipeline                             *)
(***************************************************************************)

\* The file name is held by the directory with at least one byte.
HoldsNonEmpty(dir, name) == dir.exists /\ name \in DOMAIN dir.files /\ dir.files[name] # <<>>

C8_NoCorruptArtifact ==
    /\ \A i \in 1..Len(calls) :
          calls[i].stream_failed => calls[i].filename.v \notin DOMAIN calls[i].post.files
    /\ download_dir.exists =>
          \A name \in DOMAIN download_dir.files :
              download_dir.files[name] # <<>>
                => \E k \in 1..Len(assets) :
                      assets[k].name = name /\ assets[k].body = download_dir.files[name]

\* The least element of a non-empty set of numbers
Least(S) == CHOOSE k \in S : \A m \in S : k <= m

\* The indices of the assets whose names match pattern
Matching(pattern) == {k \in 1..Len(assets) : Fnmatch(assets[k].name, pattern, normcase_folds)}

\* C9: a call whose feed request returned a non-empty asset list chooses the
\* first asset, in feed order, that matches the primary pattern; if none
\* matches it, the first that matches the fallback pattern; and if none
\* matches either (or there is no fallback), it returns failure.
C9_AssetSelection ==
    \A i \in 1..Len(calls) :
        LET c == calls[i]
            primary == Matching(asset_pattern)
            fallback == IF fallback_asset_pattern = None THEN {}
                        ELSE Matching(fallback_asset_pattern.v)
        IN  (c.feed = "ok" /\ assets # <<>>)
            => IF primary # {} THEN c.filename = Str(assets[Least(primary)].name)
               ELSE IF fallback # {} THEN c.filename = Str(assets[Least(fallback)].name)
               ELSE c.filename = None /\ c.ret = None

\* C9 witness: no asset matches the primary pattern, two match the fallback,
\* and the call downloaded the first of the two.
C9_Witness ==
    /\ calls # <<>>
    /\ asset_pattern = "*RELEASE.zip"
    /\ Matching(asset_pattern) = {}
    /\ Matching("*.zip") = {2, 3}
    /\ calls[1].filename = Str("RTL8111-V2.4.2.zip")
    /\ calls[1].ret # None

\* The directories a search for kext_name_pattern may return
Candidates ==
    {e \in search_dir :
        /\ e.is_dir
        /\ EndsWith(NameOf(e), ".kext")
        /\ IF is_plugin_search THEN NameOf(e) = kext_name_pattern
           ELSE StartsWith(NameOf(e), kext_name_pattern)}

\* C10: the search returns nothing exactly when no directory qualifies, and
\* otherwise a qualifying directory than which no qualifying directory is
\* less deep; in the tree of Top/Foo.kext and its nested duplicate, the
\* search for "Foo" returns Top/Foo.kext.
C10_ShallowestMatch ==
    pc = "returned"
    => /\ (found_path = None) <=> (Candidates = {})
       /\ found_path # None
            => \E e \in Candidates :
                  /\ found_path = Path(e.parts)
                  /\ \A other \in Candidates : Len(e.parts) <= Len(other.parts)
       /\ (search_dir = ExampleTree /\ kext_name_pattern = "Foo" /\ ~is_plugin_search)
            => found_path = Path(<<"Top", "Foo.kext">>)

\* C10 witness: the search for "Foo" in the example tree has returned
\* Top/Foo.kext, with the nested duplicate among the candidates.
C10_Witness ==
    /\ pc = "returned"
    /\ search_dir = ExampleTree
    /\ kext_name_pattern = "Foo"
    /\ ~is_plugin_search
    /\ Cardinality(Candidates) = 2
    /\ found_path = Path(<<"Top", "Foo.kext">>)

(***************************************************************************)
(* Properties of staging                                                   *)
(***************************************************************************)

\* The directories of tmpdir that qualify for a logged item
QualifyingFor(item) ==
    {e \in tmpdir :
        /\ e.is_dir
        /\ EndsWith(NameOf(e), ".kext")
        /\ IF item.plugin THEN NameOf(e) = item.target.v
           ELSE StartsWith(NameOf(e), kext_info.name)}

\* The item's bundle was found and its copy went through.
Copied(item) == item.found # None /\ item.rm \in {"none", "ok"} /\ item.cp = "ok"

\* C11: when stage_kext returns after extracting the archive, the primary
\* kext (if it has a generic name) and every declared plugin were handled, in
\* the declared order, whatever happened to the items before them; an item
\* was found exactly when the archive holds a qualifying directory; and the
\* list returned holds exactly the targets of the items copied, in that order.
C11_PerItemStaging ==
    pc = "stage_returned"
    => /\ Len(stage_log) = 1 + Len(kext_info.plugins)
       /\ stage_log[1].target = kext_info.generic_kext_name
       /\ \A i \in 1..Len(kext_info.plugins) : stage_log[i + 1].target = Str(kext_info.plugins[i])
       /\ \A i \in 1..Len(stage_log) :
             stage_log[i].target # None
               => ((stage_log[i].found = None) <=> (QualifyingFor(stage_log[i]) = {}))
       /\ LET copied == SelectSeq(stage_log, Copied)
          IN  staged_kext_paths = [i \in 1..Len(copied) |-> TargetPath(copied[i].target.v)]

\* C11 witness: the primary kext's copy failed, a plugin after it was missing
\* from the archive, and a plugin after that was staged and returned.
C11_Witness ==
    /\ pc = "stage_returned"
    /\ Len(stage_log) = 3
    /\ stage_log[1].found # None /\ stage_log[1].cp = "fails"
    /\ stage_log[2].found = None
    /\ Copied(stage_log[3])
    /\ staged_kext_paths = <<TargetPath(stage_log[3].target.v)>>

\* C12 (as claimed): when stage_kext returns, every directory OC/Kexts held
\* before the call is still there, and holds either all of its previous
\* contents or all of a newly copied bundle.
C12_AtomicReplacement ==
    pc = "stage_returned"
    => \A name \in DOMAIN staging_before :
          /\ name \in DOMAIN kexts_staging
          /\ kexts_staging[name].whole

(***************************************************************************)
(* Properties of the generators                                            *)
(***************************************************************************)

\* A call of the named generator has been made.
Called(generator) == gen_call # None /\ gen_call.generator = generator

\* A call of the named generator on a list has returned.
ReturnedFrom(generator) ==
    Called(generator) /\ ~gen_call.raised /\ IsList(gen_call.args[1])

\* The field of descriptor d, None when d has no such field.
Field(d, key) == Get(d.m, key, None)

\* C13 (as claimed): no call of a generator raises, whatever it is handed: a
\* value of the wrong type, a list with an element that is no mapping, a
\* descriptor with a field that is None or missing.
C13_GeneratorsNeverRaise == gen_call # None => ~gen_call.raised

\* The descriptor is a mapping that carries the Realtek marker: vendor 10EC
\* and HDAUDIO in its PNP id, in either case.
IsRealtekHda(d) ==
    /\ IsDict(d)
    /\ Field(d, "VendorID").t = "str" /\ Upper(Field(d, "VendorID").v) = "10EC"
    /\ Field(d, "PNPDeviceID").t = "str" /\ Contains(Upper(Field(d, "PNPDeviceID").v), "HDAUDIO")

\* The strings the audio scan reads from d are strings or missing.
AudioReadable(d) ==
    /\ IsDict(d)
    /\ \A key \in {"Name", "PNPDeviceID"} : key \in DOMAIN d.m => d.m[key].t = "str"

\* The entries of the list with the given bundle path.
EntriesFor(entries, bundle_path) ==
    {i \in 1..Len(entries) : BundlePathOf(entries[i]) = Str(bundle_path)}

\* The boot-args tokens of a tree, none when it has no boot-args.
TokensOf(tree) == IF BootArgsOf(tree) = None THEN <<>> ELSE Split(BootArgsOf(tree).v)

\* The DeviceProperties/Add paths of a tree.
DevicePathsOf(tree) ==
    IF "DeviceProperties" \in DOMAIN tree /\ HasKey(tree["DeviceProperties"], "Add")
    THEN DOMAIN tree["DeviceProperties"].m["Add"].m
    ELSE {}

\* C14: what the audio generator returns holds at most one device-property
\* entry, one boot-args token and one AppleALC.kext entry, and exactly one of
\* each when a descriptor of the list matches; and the scan stops at the
\* first match: when the descriptors up to and including the first match can
\* be read, the call returns whatever follows it.
C14_AudioFirstMatchWins ==
    Called("audio") /\ IsList(gen_call.args[1])
    => LET devices == gen_call.args[1].s
           matches == {i \in 1..Len(devices) : IsRealtekHda(devices[i])}
           ret == gen_call.ret
       IN  /\ ~gen_call.raised
                => /\ Cardinality(DevicePathsOf(ret)) <= 1
                   /\ Len(TokensOf(ret)) <= 1
                   /\ Cardinality(EntriesFor(KernelAddOf(ret), "AppleALC.kext")) <= 1
                   /\ matches # {}
                        => /\ Cardinality(DevicePathsOf(ret)) = 1
                           /\ Len(TokensOf(ret)) = 1
                           /\ Cardinality(EntriesFor(KernelAddOf(ret), "AppleALC.kext")) = 1
           /\ \A i \in matches :
                 (\A j \in 1..i : AudioReadable(devices[j])) => ~gen_call.raised

\* C14 witness: two matching descriptors, and a matching descriptor followed
\* by one that cannot be read; each call returned one entry of each kind.
C14_Witness ==
    /\ ReturnedFrom("audio")
    /\ LET devices == gen_call.args[1].s
       IN  /\ Len(devices) = 2
           /\ IsRealtekHda(devices[1])
           /\ IsRealtekHda(devices[2]) \/ ~AudioReadable(devices[2])
    /\ Cardinality(DevicePathsOf(gen_call.ret)) = 1
    /\ TokensOf(gen_call.ret) = <<"alcid=11">>

(***************************************************************************)
(* Properties of the injector                                              *)
(***************************************************************************)

\* C15 (as claimed): whatever list without duplicate bundle paths the
\* injector found, afterwards Kernel/Add holds Lilu.kext once and
\* VirtualSMC.kext once, Lilu.kext at the smaller index.
C15_InjectOnArbitraryList ==
    pc = "done"
    => LET list == KernelAddOf(final_opencore_config)
           lilu == EntriesFor(list, "Lilu.kext")
           vsmc == EntriesFor(list, "VirtualSMC.kext")
       IN  /\ Cardinality(lilu) = 1
           /\ Cardinality(vsmc) = 1
           /\ \A i \in lilu, j \in vsmc : i < j

\* The containers of a tree, at any depth, that hold nothing.
RECURSIVE EmptyContainers(_)
EmptyContainers(x) ==
    IF IsDict(x)
    THEN IF DOMAIN x.m = {} THEN {x}
         ELSE UNION {EmptyContainers(x.m[k]) : k \in DOMAIN x.m}
    ELSE IF IsList(x)
    THEN IF x.s = <<>> THEN {x}
         ELSE UNION {EmptyContainers(x.s[i]) : i \in 1..Len(x.s)}
    ELSE {}

\* C16 (as claimed): when no descriptor of the list matches, what the audio
\* generator returns has no DeviceProperties, Kernel or NVRAM section that
\* holds an empty mapping or an empty sequence.
C16_AudioNoMatchCollapse ==
    /\ ReturnedFrom("audio")
    /\ \A i \in 1..Len(gen_call.args[1].s) : ~IsRealtekHda(gen_call.args[1].s[i])
    => \A section \in {"DeviceProperties", "Kernel", "NVRAM"} \cap DOMAIN gen_call.ret :
          EmptyContainers(gen_call.ret[section]) = {}

\* The descriptors of a list that are GPUs: mappings with a vendor id.
GpusOf(gpu_list) ==
    {i \in 1..Len(gpu_list.s) :
        IsDict(gpu_list.s[i]) /\ Field(gpu_list.s[i], "VendorID").t = "str"}

\* C17 (as claimed): what the GPU generator returns for a list holds
\* WhateverGreen.kext at most once, and exactly once when the list holds a
\* GPU, whatever its vendor.
C17_WhateverGreenForAnyGpu ==
    ReturnedFrom("gpu")
    => LET weg == EntriesFor(KernelAddOf(gen_call.ret), "WhateverGreen.kext")
       IN  /\ Cardinality(weg) <= 1
           /\ GpusOf(gen_call.args[1]) # {} => Cardinality(weg) = 1

\* An id of a descriptor in upper case, empty when it has none.
IdOf(d, key) == IF Field(d, key).t = "str" THEN Upper(Field(d, key).v) ELSE ""

\* The driver component the (vendor id, device id) table gives for a
\* descriptor, None when it gives none.
ComponentFor(d) ==
    LET vendor == IdOf(d, "VendorID")
        device == IdOf(d, "DeviceID")
    IN  IF vendor = "10EC" /\ device \in {"8168", "8111"} THEN Str("RealtekRTL8111.kext")
        ELSE IF vendor = "10EC" /\ device = "8125" THEN Str("LucyRTL8125Ethernet.kext")
        ELSE IF vendor = "8086" THEN Str("IntelMausi.kext")
        ELSE None

\* The name of an Ethernet descriptor: its product name, else its name, None
\* when it has neither.
EthernetNameOf(d) ==
    IF Field(d, "ProductName").t = "str" /\ Field(d, "ProductName").v # ""
    THEN Field(d, "ProductName")
    ELSE Field(d, "Name")

\* C18: what the Ethernet generator returns for a list holds, for every
\* driver component, an entry exactly when a device of the list maps to it,
\* never more than one, and nothing else; the entry's Comment carries the name
\* and the ids of the first device of the list that maps to the component.
C18_EthernetOnePerComponent ==
    ReturnedFrom("ethernet")
    => LET devices == gen_call.args[1].s
           entries == KernelAddOf(gen_call.ret)
           components == {ComponentFor(devices[i]) : i \in 1..Len(devices)} \ {None}
       IN  /\ {BundlePathOf(entries[i]) : i \in 1..Len(entries)} = components
           /\ Len(entries) = Cardinality(components)
           /\ \A i \in 1..Len(entries) :
                 LET first == CHOOSE k \in 1..Len(devices) :
                                 /\ ComponentFor(devices[k]) = BundlePathOf(entries[i])
                                 /\ \A j \in 1..(k - 1) :
                                       ComponentFor(devices[j]) # BundlePathOf(entries[i])
                     comment == entries[i].m["Comment"].v
                 IN  /\ EthernetNameOf(devices[first]) # None
                          => Contains(comment, " for " \o EthernetNameOf(devices[first]).v \o " (")
                     /\ Contains(comment, "(VID:" \o IdOf(devices[first], "VendorID")
                                          \o " DID:" \o IdOf(devices[first], "DeviceID") \o ")")

\* C18 witness: two devices with different names map to the same component,
\* and the one entry returned is commented with the first.
C18_Witness ==
    /\ ReturnedFrom("ethernet")
    /\ LET devices == gen_call.args[1].s
           entries == KernelAddOf(gen_call.ret)
       IN  /\ Len(devices) = 2
           /\ ComponentFor(devices[1]) # None
           /\ ComponentFor(devices[1]) = ComponentFor(devices[2])
           /\ EthernetNameOf(devices[1]) # None
           /\ EthernetNameOf(devices[2]) # None
           /\ EthernetNameOf(devices[1]) # EthernetNameOf(devices[2])
           /\ Len(entries) = 1
           /\ Contains(entries[1].m["Comment"].v, EthernetNameOf(devices[1]).v)
           /\ ~Contains(entries[1].m["Comment"].v, EthernetNameOf(devices[2]).v)

(***************************************************************************)
(* Properties of the registry                                              *)
(***************************************************************************)

C20_NoAutomaticRetry ==
    \A i \in 1..Len(calls) :
        LET c == calls[i]
            no_match == /\ Matching(asset_pattern) = {}
                        /\ \/ fallback_asset_pattern = None
                           \/ Matching(fallback_asset_pattern.v) = {}
        IN  /\ c.feed_requests = 1
            /\ c.asset_requests <= 1
            /\ (c.feed # "ok" \/ assets = <<>> \/ no_match)
                  => /\ c.ret = None
                     /\ c.feed_requests = 1
                     /\ c.asset_requests = 0

\* C20 witness: the feed request of the first call timed out and the call
\* returned failure after that one request; the download happened only in
\* the second call, made by the caller.
C20_Witness ==
    /\ Len(calls) = 2
    /\ calls[1].feed = "timeout"
    /\ calls[1].ret = None
    /\ calls[1].feed_requests = 1
    /\ calls[1].asset_requests = 0
    /\ calls[2].feed = "ok"
    /\ calls[2].feed_requests = 1
    /\ calls[2].asset_requests = 1
    /\ calls[2].ret # None

(***************************************************************************)
(* Properties of the merge engine on objects                               *)
(***************************************************************************)

\* The i-th partial tree merged, as its caller reads it now.
PartNow(i) == Deref(heap, <<i, <<>>>>)

\* The accumulator read from memory is the tree the merges produce.
AccumulatorAgrees == Deref(heap, Root) = final_opencore_config

\* C22 (as claimed): every partial tree merged so far still reads as it did
\* just before it was merged.
C22_PartsUnmodified == \A i \in 1..Len(merged) : PartNow(i) = merged[i]

RECURSIVE KeyPaths(_, _)
\* The key paths of a tree: the paths from path on of its keys and of the
\* keys of the dicts below it.
KeyPaths(tree, path) ==
    UNION {{Append(path, k)} \cup (IF IsDict(tree[k]) THEN KeyPaths(tree[k].m, Append(path, k)) ELSE {}) :
              k \in DOMAIN tree}

boot_args_path == <<"NVRAM", "Add", guid_key, "boot-args">>

\* C23 (as claimed): after a merge, the accumulator holds every key path of
\* the tree just merged, the boot-args key alone being allowed to be absent.
C23_NoIncomingDataLost ==
    merged # <<>>
    => KeyPaths(merged[Len(merged)], <<>>) \ {boot_args_path}
          \subseteq KeyPaths(final_opencore_config, <<>>)

\* The sequence seq rearranged by p, a permutation of its indices.
Rearranged(seq, p) == [i \in 1..Len(seq) |-> seq[p[i]]]

\* C24 (as claimed): what the GPU generator returned for a list is what it
\* returns, with the same CPU descriptor, for the list in any other order.
C24_GpuOrderIndependent ==
    ReturnedFrom("gpu")
    => \A p \in Permutations(1..Len(gen_call.args[1].s)) :
          generate_gpu_config_parts(List(Rearranged(gen_call.args[1].s, p)), gen_call.args[2])
             = gen_call.ret

(***************************************************************************)
(* Properties of the finished tree                                         *)
(***************************************************************************)

\* C25: once the injector has run, whatever the probes returned and whether
\* or not the CPU probe failed, no two entries of Kernel/Add have the same
\* BundlePath.
C25_UniqueBundlePaths ==
    pc = "done"
    => LET add == KernelAddOf(final_opencore_config)
       IN  \A i, j \in 1..Len(add) : BundlePathOf(add[i]) = BundlePathOf(add[j]) => i = j

\* C25 witness: the run is complete with entries from the CPU, GPU, audio
\* and Ethernet trees and from the injector, two GPUs having been configured.
C25_Witness ==
    /\ pc = "done"
    /\ Len(gpu_details_list.s) = 2
    /\ \A i \in 1..2 : IdOf(gpu_details_list.s[i], "VendorID") \in {"10DE", "1002"}
    /\ {"Lilu.kext", "VirtualSMC.kext", "SMCProcessor.kext", "SMCSuperIO.kext", "NVMeFix.kext",
        "WhateverGreen.kext", "AppleALC.kext", "IntelMausi.kext"}
          = BundlePathsOf(final_opencore_config)
    /\ Len(KernelAddOf(final_opencore_config)) = 8


(***************************************************************************)
(* Properties of two calls of stage_kext under way at once                  *)
(***************************************************************************)

\* Every call has returned.
BothReturned == pc = "stage_pair" /\ \A i \in Callers : stagers[i].at = "returned"

\* The destination names of the two calls, one after the other.
DestinationNames ==
    LET names(i) == [k \in 1..Len(ItemsOf(stagers[i].kext_info)) |->
                        ItemsOf(stagers[i].kext_info)[k].target]
    IN  names(1) \o names(2)

PairwiseDistinct(s) == \A i, j \in 1..Len(s) : i # j => s[i] # s[j]

\* One call of stage_kext run alone from staging, with the outcomes its log tells.
RECURSIVE RunAlone(_, _, _)
RunAlone(staging, paths, log) ==
    IF log = <<>> THEN [staging |-> staging, paths |-> paths]
    ELSE LET r == StageItem(staging, paths, Head(log).target.v, Head(log).found,
                            Head(log).rm, Head(log).cp)
         IN  RunAlone(r.staging, r.paths, Tail(log))

\* The calls run one after the other, first before second: OC/Kexts at the
\* end and what each call returns.
OneAfterTheOther(first, second) ==
    LET a == RunAlone(staging_before, <<>>, stagers[first].log)
        b == RunAlone(a.staging, <<>>, stagers[second].log)
    IN  [staging |-> b.staging, returned |-> Keys2(first, a.paths, second, b.paths)]

\* What the calls under way at once have left and returned.
AtOnce ==
    [staging |-> kexts_staging,
     returned |-> [i \in Callers |-> stagers[i].staged_kext_paths]]

\* C21: when the destination names of two calls of stage_kext on one staging
\* root are pairwise distinct, any interleaving of their filesystem steps
\* leaves the same OC/Kexts and returns the same lists as the two calls run
\* one after the other.
C21_InterleavingAsSequential ==
    (BothReturned /\ PairwiseDistinct(DestinationNames))
        => /\ AtOnce = OneAfterTheOther(1, 2)
           /\ AtOnce = OneAfterTheOther(2, 1)

\* Two calls with distinct destination names have returned; each took steps
\* while the other was under way, each staged a bundle, the first had to
\* give one up and the second replaced one.
C21_Witness ==
    /\ BothReturned
    /\ PairwiseDistinct(DestinationNames)
    /\ \A i \in Callers : stagers[i].overlapped
    /\ Len(stagers[1].kext_info.plugins) >= 1
    /\ \A i \in Callers : stagers[i].staged_kext_paths # <<>>
    /\ \E k \in 1..Len(stagers[1].log) : stagers[1].log[k].cp = "fails_midway"
    /\ stagers[2].log[1].rm = "ok"
    /\ kexts_staging # staging_before

====
